---- MODULE Spec2Model ----
(***************************************************************************)
(* GoDB (go-db-2024/godb): heap pages, heap files behind a buffer pool,    *)
(* the sequential scan and the insert operator, as state machines.         *)
(*                                                                         *)
(* A pointer that may be nil is a sequence of length at most one: <<>> is  *)
(* nil and <<x>> points at x.  Slot s of a page is tuples[s + 1].          *)
(***************************************************************************)
EXTENDS Integers, Sequences, FiniteSets, Bags, TLC

\* ------------------------------------------------------------- bounds
\* Bytes per page (4096 in the program); 32 leaves room for three int tuples.
PageSize == 32
\* Largest number of successful insertTuple calls on the heap file.
MaxInserts == 4
\* Largest buffer pool capacity tried (BufferPool.PageNum ranges over 1..).
MaxPageNum == 2
\* Longest child stream handed to the insert operator.
MaxChild == 2
\* Largest number of calls of one InsertOp iterator.
MaxCalls == 2
\* Largest limit handed to NewLimitOp (the smallest tried is -1).
MaxLimit == 3
\* Largest number of calls of the iterator of a LimitOp, join or OrderBy.
MaxOpCalls == 5
\* Largest maxBufferSize handed to NewJoin (the smallest tried is 1).
MaxBufferSize == 3
\* Longest child stream handed to OrderBy.
MaxSortLen == 3
MaxAggValue == 3
MaxAdds == 3
MaxFields == 2
MaxLines == 2
MaxExprs == 2

\* ------------------------------------------------------------- constants
\* Bytes of the page header: two int32.
HeaderSize == 8
\* Bytes of an IntType field.
IntSize == 8

Nil == <<>>
\* The integer field values the clients store.
Values == {1, 2}
\* No more pages than successful inserts: each insert adds at most one page.
MaxPages == MaxInserts

\* The TupleDesc of the heap file: one IntType field.
FileDesc == <<"int">>
\* A descriptor the heap file does not have.
OtherDesc == <<"int", "int">>

VARIABLES
  h,            \* SpecPage: the heap page under test
  rt,           \* SpecPage: <<>> or <<page read back from h's buffer>>
  Pages,        \* bufPool.Pages: page number -> resident heapPage
  PageNum,      \* bufPool.PageNum: capacity of the pool
  file,         \* the backing file: sequence of page buffers
  idlePage,     \* HeapFile.idlePage: the hint set
  pageCount,    \* HeapFile.pageCount
  iterIndex,    \* HeapFile.Iterator closure: iterIndex (-1: no iterator yet)
  tupleIterMap, \* HeapFile.Iterator closure: page number -> <<>> or <<page iterator>>
  out,          \* history: tuples the current iterator has yielded
  quiet,        \* history: no insertTuple/deleteTuple since the iterator was made
  inserted,     \* history: bag of Fields of the successful insertTuple calls
  inserts,      \* history: number of successful insertTuple calls
  deleted,      \* history: a deleteTuple call has succeeded
  evicted,      \* history: pages dropped from the pool by the last step
  ret,          \* history: what the last call returned
  child,        \* InsertOp.child: the sequence its iterator yields
  calls,        \* history: number of calls of the InsertOp iterator so far
  insertLog,    \* history: the tuples InsertOp passed to insertFile.insertTuple
  emitted,      \* history: number of count tuples the InsertOp iterator returned
  opState,      \* the other operator under test: its fields, its iterator's
                \* closure variables and the history of its calls
  seen          \* history: the errors the child's next function and the
                \* expression evaluations returned during the last call of
                \* an operator's next function

opVars == <<child, calls, insertLog, emitted, opState, seen>>
scanVars == <<out, quiet>>
histVars == <<inserted, inserts, deleted>>
vars == <<h, rt, Pages, PageNum, file, idlePage, pageCount, iterIndex,
          tupleIterMap, out, quiet, inserted, inserts, deleted, evicted, ret,
          child, calls, insertLog, emitted, opState, seen>>

\* ------------------------------------------------------------- record ids
getRecordID(pageNo, slot) == <<pageNo, slot>>
splitRecordID(rid) == rid

\* ------------------------------------------------------------- heap page
Tuple(desc, fields, rid) == [Desc |-> desc, Fields |-> fields, Rid |-> rid]

RECURSIVE perTupleSizeOf(_)
perTupleSizeOf(desc) ==
  IF desc = <<>> THEN 0 ELSE IntSize + perTupleSizeOf(Tail(desc))

newHeapPage(desc, pageNo) ==
  LET remPageSize == PageSize - HeaderSize
      slotCount == remPageSize \div perTupleSizeOf(desc)
  IN [pageNo |-> pageNo, dirty |-> FALSE, desc |-> desc,
      slotCount |-> slotCount, slotUsed |-> 0,
      tuples |-> [i \in 1..slotCount |-> Nil]]

firstFree_mutHighest(tuples, index) ==
  LET free == {i \in index..(Len(tuples) - 1) : tuples[i + 1] = Nil} IN
  IF free = {} THEN -1 ELSE CHOOSE i \in free : \A j \in free : j <= i

\* The loop of heapPage.insertTuple: the first index >= index whose slot is
\* nil, or -1 when the range runs out.
RECURSIVE firstFree(_, _)
firstFree(tuples, index) ==
  IF index >= Len(tuples) THEN -1
  ELSE IF tuples[index + 1] # Nil THEN firstFree(tuples, index + 1)
  ELSE index

heapPage_insertTuple_mutNoSlotUsed(p, t) ==
  LET index == firstFree(p.tuples, 0) IN
  IF index = -1
  THEN [h |-> p, id |-> Nil, err |-> "PageFullError"]
  ELSE LET id == getRecordID(p.pageNo, index) IN
       [h |-> [p EXCEPT !.tuples[index + 1] = <<Tuple(p.desc, t.Fields, id)>>,
                        !.dirty = TRUE],
        id |-> id, err |-> "nil"]

heapPage_insertTuple(p, t) ==
  LET index == firstFree(p.tuples, 0) IN
  IF index = -1
  THEN [h |-> p, id |-> Nil, err |-> "PageFullError"]
  ELSE LET id == getRecordID(p.pageNo, index) IN
       [h |-> [p EXCEPT !.tuples[index + 1] = <<Tuple(p.desc, t.Fields, id)>>,
                        !.slotUsed = @ + 1,
                        !.dirty = TRUE],
        id |-> id, err |-> "nil"]

heapPage_deleteTuple_mutDirtyOnFail(p, rid) ==
  LET slot == splitRecordID(rid)[2] IN
  IF slot < 0 \/ slot >= Len(p.tuples)
  THEN [h |-> p, err |-> "TupleNotFoundError"]
  ELSE IF p.tuples[slot + 1] = Nil
  THEN [h |-> [p EXCEPT !.dirty = TRUE], err |-> "TupleNotFoundError"]
  ELSE [h |-> [p EXCEPT !.tuples[slot + 1] = Nil,
                        !.slotUsed = @ - 1,
                        !.dirty = TRUE],
        err |-> "nil"]

heapPage_deleteTuple(p, rid) ==
  LET slot == splitRecordID(rid)[2] IN
  IF slot < 0 \/ slot >= Len(p.tuples)
  THEN [h |-> p, err |-> "TupleNotFoundError"]
  ELSE IF p.tuples[slot + 1] = Nil
  THEN [h |-> p, err |-> "TupleNotFoundError"]
  ELSE [h |-> [p EXCEPT !.tuples[slot + 1] = Nil,
                        !.slotUsed = @ - 1,
                        !.dirty = TRUE],
        err |-> "nil"]

\* The tuples loop of toBuffer: the Fields of the non-nil slots, in slot order.
RECURSIVE writeTuples(_)
writeTuples(tuples) ==
  IF tuples = <<>> THEN <<>>
  ELSE IF Head(tuples) = Nil THEN writeTuples(Tail(tuples))
  ELSE <<Head(tuples)[1].Fields>> \o writeTuples(Tail(tuples))

RECURSIVE bytesOf(_)
bytesOf(tups) ==
  IF tups = <<>> THEN 0 ELSE IntSize * Len(Head(tups)) + bytesOf(Tail(tups))

\* A page buffer: the two header words, the tuples written, the zero padding.
bufLen(buf) == HeaderSize + bytesOf(buf.tups) + buf.padding

toBuffer_mutNoPadding(p) ==
  [slotCount |-> p.slotCount, slotUsed |-> p.slotUsed,
   tups |-> writeTuples(p.tuples), padding |-> 0]

toBuffer_mutSlotOrder(p) ==
  LET tups == writeTuples(p.tuples)
      rev == [i \in 1..Len(tups) |-> tups[Len(tups) + 1 - i]]
      len == HeaderSize + bytesOf(tups)
  IN [slotCount |-> p.slotCount, slotUsed |-> p.slotUsed, tups |-> rev,
      padding |-> IF len < PageSize THEN PageSize - len ELSE 0]

toBuffer(p) ==
  LET tups == writeTuples(p.tuples)
      len == HeaderSize + bytesOf(tups)
  IN [slotCount |-> p.slotCount, slotUsed |-> p.slotUsed, tups |-> tups,
      padding |-> IF len < PageSize THEN PageSize - len ELSE 0]

\* readTupleFrom at tuple position i of the buffer: past the tuples written
\* it reads the zero padding.
readTupleFrom(buf, i, desc) ==
  IF i + 1 <= Len(buf.tups) THEN buf.tups[i + 1]
  ELSE [k \in 1..Len(desc) |-> 0]

initFromBuffer(p, buf) ==
  [p EXCEPT !.slotCount = buf.slotCount,
            !.slotUsed = buf.slotUsed,
            !.tuples = [i \in 1..buf.slotCount |->
                          IF i - 1 < buf.slotUsed
                          THEN <<Tuple(p.desc, readTupleFrom(buf, i - 1, p.desc),
                                       getRecordID(p.pageNo, i - 1))>>
                          ELSE Nil]]

RECURSIVE tupleIterNext_mutNoSkip(_, _)
tupleIterNext_mutNoSkip(p, iter) ==
  IF p.slotUsed = 0 THEN [reply |-> Nil, iter |-> iter]
  ELSE IF iter >= Len(p.tuples) THEN [reply |-> Nil, iter |-> iter]
  ELSE [reply |-> p.tuples[iter + 1], iter |-> iter + 1]

\* One call of the function heapPage.tupleIter returns, on page p with the
\* closure's counter at iter: the reply and the counter afterwards.
RECURSIVE tupleIterNext(_, _)
tupleIterNext(p, iter) ==
  IF p.slotUsed = 0 THEN [reply |-> Nil, iter |-> iter]
  ELSE IF iter >= Len(p.tuples) THEN [reply |-> Nil, iter |-> iter]
  ELSE IF p.tuples[iter + 1] = Nil THEN tupleIterNext(p, iter + 1)
  ELSE [reply |-> p.tuples[iter + 1], iter |-> iter + 1]

\* ------------------------------------------------------------- heap file
\* The state the heap file's methods read and write, threaded through them:
\* Pages, file, idlePage, pageCount as the variables; tim is tupleIterMap
\* (its page iterators hold page objects); ev collects the pages dropped
\* from the pool.
FS == [Pages |-> Pages, file |-> file, idlePage |-> idlePage,
       pageCount |-> pageCount, iterIndex |-> iterIndex, tim |-> tupleIterMap,
       ev |-> {}]

\* The bag of the elements of a sequence.
BagOfSeq(seq) ==
  [x \in {seq[i] : i \in DOMAIN seq} |->
     Cardinality({i \in DOMAIN seq : seq[i] = x})]

Without(f, k) == [x \in DOMAIN f \ {k} |-> f[x]]

ZeroPage == [slotCount |-> 0, slotUsed |-> 0, tups |-> <<>>,
             padding |-> PageSize - HeaderSize]

\* buf.WriteTo(f.file) after Seek(pageNo * PageSize): overwrite, append, or
\* leave a hole of zero bytes before the page.
RECURSIVE writeAt(_, _, _)
writeAt(f, pageNo, buf) ==
  IF pageNo < Len(f) THEN [f EXCEPT ![pageNo + 1] = buf]
  ELSE IF pageNo = Len(f) THEN Append(f, buf)
  ELSE writeAt(Append(f, ZeroPage), pageNo, buf)

\* The length of the backing file in bytes: pages lie at multiples of
\* PageSize, and the file ends where its last page buffer ends.
fileSize(f) ==
  IF f = <<>> THEN 0 ELSE (Len(f) - 1) * PageSize + bufLen(f[Len(f)])

\* HeapFile.NumPages(): the file's size in pages, rounded up.
NumPages(f) ==
  LET num == fileSize(f) \div PageSize IN
  IF fileSize(f) % PageSize # 0 THEN num + 1 ELSE num

flushPage_mutCompact(f, p) ==
  [file |-> writeAt(f, p.pageNo, toBuffer(p)),
   page |-> [initFromBuffer(p, toBuffer(p)) EXCEPT !.dirty = FALSE]]

flushPage(f, p) ==
  [file |-> writeAt(f, p.pageNo, toBuffer(p)),
   page |-> [p EXCEPT !.dirty = FALSE]]

readPage(f, pageNo) ==
  IF pageNo < 0 THEN [err |-> "SeekError", page |-> Nil]
  ELSE IF pageNo >= Len(f) THEN [err |-> "EOF", page |-> Nil]
  ELSE [err |-> "nil",
        page |-> <<initFromBuffer(
                     [pageNo |-> pageNo, dirty |-> FALSE, desc |-> FileDesc,
                      slotCount |-> 0, slotUsed |-> 0, tuples |-> <<>>],
                     f[pageNo + 1])>>]

\* ------------------------------------------------------------- buffer pool
\* Dropping page q from the pool: a page iterator that holds the dropped
\* object and can still be called (the scan has not moved past its page)
\* keeps the object, with the contents it had when dropped.
Evict(fs, q) ==
  [fs EXCEPT !.Pages = Without(fs.Pages, q),
             !.ev = @ \cup {q},
             !.tim = [i \in DOMAIN fs.tim |->
                        IF i = q /\ i >= fs.iterIndex
                           /\ fs.tim[i] # Nil /\ fs.tim[i][1].h = Nil
                        THEN <<[fs.tim[i][1] EXCEPT !.h = <<fs.Pages[q]>>]>>
                        ELSE fs.tim[i]]]

Victims_mutAnyPage(fs) == DOMAIN fs.Pages

\* The pages the eviction policy may choose: any page that is not dirty.
Victims(fs) == {q \in DOMAIN fs.Pages : ~fs.Pages[q].dirty}

\* BufferPool.GetPage: every outcome it may have, as [fs, err]; on success
\* the page is fs.Pages[pageNo].
GetPage(fs, pageNo) ==
  IF pageNo \in DOMAIN fs.Pages THEN {[fs |-> fs, err |-> "nil"]}
  ELSE LET r == readPage(fs.file, pageNo) IN
       IF r.err # "nil" THEN {[fs |-> fs, err |-> r.err]}
       ELSE IF Cardinality(DOMAIN fs.Pages) < PageNum
       THEN {[fs |-> [fs EXCEPT !.Pages = (pageNo :> r.page[1]) @@ @],
              err |-> "nil"]}
       ELSE IF Victims(fs) = {}
       THEN {[fs |-> fs, err |-> "BufferFullError"]}
       ELSE {[fs |-> [Evict(fs, q) EXCEPT !.Pages = (pageNo :> r.page[1]) @@ @],
              err |-> "nil"] : q \in Victims(fs)}

\* BufferPool.FlushAllPages: flushPage on every resident dirty page.
RECURSIVE flushEach(_, _)
flushEach(fs, todo) ==
  IF todo = {} THEN fs
  ELSE LET q == CHOOSE x \in todo : \A y \in todo : x <= y
           r == flushPage(fs.file, fs.Pages[q])
       IN flushEach([fs EXCEPT !.file = r.file, !.Pages[q] = r.page],
                    todo \ {q})

FlushAllPages(fs) ==
  flushEach(fs, {q \in DOMAIN fs.Pages : fs.Pages[q].dirty})

\* ------------------------------------------------------------- HeapFile methods
\* The range loop of HeapFile.insertTuple over the hint set, in any order (a
\* Go map ranges in no fixed order): todo holds the entries not yet visited.
\* Every outcome, as [fs, err, validPage]; validPage = -1 is nil.
RECURSIVE idleLoop_mutNoPrune(_, _)
idleLoop_mutNoPrune(fs, todo) ==
  IF todo = {} THEN {[fs |-> fs, err |-> "nil", validPage |-> -1]}
  ELSE UNION { UNION {
         IF g.err # "nil"
         THEN {[fs |-> g.fs, err |-> g.err, validPage |-> -1]}
         ELSE LET tmpPage == g.fs.Pages[pageNo] IN
              IF tmpPage.slotUsed >= tmpPage.slotCount
              THEN idleLoop_mutNoPrune(g.fs, todo \ {pageNo})
              ELSE {[fs |-> g.fs, err |-> "nil", validPage |-> pageNo]}
         : g \in GetPage(fs, pageNo) } : pageNo \in todo }

RECURSIVE idleLoop(_, _)
idleLoop(fs, todo) ==
  IF todo = {} THEN {[fs |-> fs, err |-> "nil", validPage |-> -1]}
  ELSE UNION { UNION {
         IF g.err # "nil"
         THEN {[fs |-> g.fs, err |-> g.err, validPage |-> -1]}
         ELSE LET tmpPage == g.fs.Pages[pageNo] IN
              IF tmpPage.slotUsed >= tmpPage.slotCount
              THEN idleLoop([g.fs EXCEPT !.idlePage = @ \ {tmpPage.pageNo}],
                            todo \ {pageNo})
              ELSE {[fs |-> g.fs, err |-> "nil", validPage |-> pageNo]}
         : g \in GetPage(fs, pageNo) } : pageNo \in todo }

newPagePath_mutAlwaysCache(fs, t) ==
  LET ins == heapPage_insertTuple(newHeapPage(FileDesc, fs.pageCount), t) IN
  IF ins.err # "nil"
  THEN [fs |-> fs, err |-> ins.err, pageNo |-> -1, path |-> "new"]
  ELSE LET fl == flushPage(fs.file, ins.h) IN
       [fs |-> [fs EXCEPT
                  !.file = fl.file,
                  !.Pages = (fs.pageCount :> fl.page) @@ @,
                  !.idlePage = @ \cup {fs.pageCount},
                  !.pageCount = @ + 1],
        err |-> "nil", pageNo |-> fs.pageCount, path |-> "new"]

newPagePath_mutNoPageCount(fs, t) ==
  LET ins == heapPage_insertTuple(newHeapPage(FileDesc, fs.pageCount), t) IN
  IF ins.err # "nil"
  THEN [fs |-> fs, err |-> ins.err, pageNo |-> -1, path |-> "new"]
  ELSE LET fl == flushPage(fs.file, ins.h) IN
       [fs |-> [fs EXCEPT
                  !.file = fl.file,
                  !.Pages = IF Cardinality(DOMAIN fs.Pages) < PageNum
                            THEN (fs.pageCount :> fl.page) @@ @
                            ELSE @,
                  !.idlePage = @ \cup {fs.pageCount}],
        err |-> "nil", pageNo |-> fs.pageCount, path |-> "new"]

\* HeapFile.insertTuple when validPage is nil: a new page, flushed at once.
newPagePath(fs, t) ==
  LET ins == heapPage_insertTuple(newHeapPage(FileDesc, fs.pageCount), t) IN
  IF ins.err # "nil"
  THEN [fs |-> fs, err |-> ins.err, pageNo |-> -1, path |-> "new"]
  ELSE LET fl == flushPage(fs.file, ins.h) IN
       [fs |-> [fs EXCEPT
                  !.file = fl.file,
                  !.Pages = IF Cardinality(DOMAIN fs.Pages) < PageNum
                            THEN (fs.pageCount :> fl.page) @@ @
                            ELSE @,
                  !.idlePage = @ \cup {fs.pageCount},
                  !.pageCount = @ + 1],
        err |-> "nil", pageNo |-> fs.pageCount, path |-> "new"]

\* HeapFile.insertTuple when a hinted page has a free slot.
hintPath(fs, validPage, t) ==
  LET ins == heapPage_insertTuple(fs.Pages[validPage], t) IN
  IF ins.err # "nil"
  THEN [fs |-> fs, err |-> ins.err, pageNo |-> -1, path |-> "hint"]
  ELSE [fs |-> [fs EXCEPT !.Pages[validPage] = [ins.h EXCEPT !.dirty = TRUE]],
        err |-> "nil", pageNo |-> validPage, path |-> "hint"]

\* HeapFile.insertTuple: every outcome, as [fs, err, pageNo, path].
HeapFile_insertTuple(fs, t) ==
  IF Len(t.Desc) # Len(t.Fields)
  THEN {[fs |-> fs, err |-> "IllegalOperationError", pageNo |-> -1, path |-> "none"]}
  ELSE IF t.Desc # FileDesc
  THEN {[fs |-> fs, err |-> "TypeMismatchError", pageNo |-> -1, path |-> "none"]}
  ELSE { IF r.err # "nil"
         THEN [fs |-> r.fs, err |-> r.err, pageNo |-> -1, path |-> "none"]
         ELSE IF r.validPage = -1 THEN newPagePath(r.fs, t)
         ELSE hintPath(r.fs, r.validPage, t)
         : r \in idleLoop(fs, fs.idlePage) }

\* HeapFile.deleteTuple: every outcome, as [fs, err, pageNo].
HeapFile_deleteTuple(fs, t) ==
  LET pageNo == splitRecordID(t.Rid)[1] IN
  { IF g.err # "nil" THEN [fs |-> g.fs, err |-> g.err, pageNo |-> pageNo]
    ELSE LET del == heapPage_deleteTuple(g.fs.Pages[pageNo], t.Rid) IN
         IF del.err # "nil" THEN [fs |-> g.fs, err |-> del.err, pageNo |-> pageNo]
         ELSE [fs |-> [g.fs EXCEPT !.Pages[pageNo] = del.h,
                                   !.idlePage = @ \cup {pageNo}],
               err |-> "nil", pageNo |-> pageNo]
    : g \in GetPage(fs, pageNo) }

\* The page object a page iterator of tupleIterMap reads: h = Nil stands for
\* the object resident in the pool under that page number.
iterPage(fs, i) ==
  IF fs.tim[i][1].h = Nil THEN fs.Pages[i] ELSE fs.tim[i][1].h[1]

\* One call of the function HeapFile.Iterator returns, the loop being at
\* page i = iterIndex: every outcome, as [fs, tuple, err].
RECURSIVE HeapFile_iterNext(_, _)
HeapFile_iterNext(fs, i) ==
  IF i >= fs.pageCount
  THEN {[fs |-> fs, tuple |-> Nil, err |-> "nil"]}
  ELSE UNION {
         IF g.err # "nil"
         THEN {[fs |-> g.fs, tuple |-> Nil, err |-> g.err]}
         ELSE LET fs1 == IF g.fs.tim[i] = Nil
                         THEN [g.fs EXCEPT !.tim[i] = <<[h |-> Nil, iter |-> 0]>>]
                         ELSE g.fs
                  n == tupleIterNext(iterPage(fs1, i), fs1.tim[i][1].iter)
                  fs2 == [fs1 EXCEPT !.tim[i][1].iter = n.iter]
              IN IF n.reply = Nil
                 THEN HeapFile_iterNext([fs2 EXCEPT !.iterIndex = @ + 1], i + 1)
                 ELSE {[fs |-> fs2, tuple |-> n.reply, err |-> "nil"]}
         : g \in GetPage(fs, i) }

\* ------------------------------------------------------------- actions
Ret(op, err, tuple, pageNo, path) ==
  [op |-> op, err |-> err, tuple |-> tuple, pageNo |-> pageNo, path |-> path]

\* The threaded state written back to the variables.
Commit(fs) ==
  /\ Pages' = fs.Pages
  /\ file' = fs.file
  /\ idlePage' = fs.idlePage
  /\ pageCount' = fs.pageCount
  /\ iterIndex' = fs.iterIndex
  /\ tupleIterMap' = fs.tim
  /\ evicted' = fs.ev

InitCommon ==
  /\ h = newHeapPage(FileDesc, 0)
  /\ rt = Nil
  /\ Pages = [x \in {} |-> Nil]
  /\ file = <<>>
  /\ idlePage = {}
  /\ pageCount = 0
  /\ iterIndex = -1
  /\ tupleIterMap = [i \in 0..(MaxPages - 1) |-> Nil]
  /\ out = <<>>
  /\ quiet = TRUE
  /\ inserted = EmptyBag
  /\ inserts = 0
  /\ deleted = FALSE
  /\ evicted = {}
  /\ ret = Ret("none", "nil", Nil, -1, "none")
  /\ calls = 0
  /\ insertLog = <<>>
  /\ emitted = 0
  /\ seen = <<>>

\* The tuples a client hands to insertTuple: of the file's descriptor, of
\* another descriptor, and with fewer fields than its descriptor names.
InsertInputs ==
  {Tuple(FileDesc, <<v>>, Nil) : v \in Values}
    \cup {Tuple(OtherDesc, <<1, 1>>, Nil), Tuple(OtherDesc, <<1>>, Nil)}

\* The tuples a client hands to deleteTuple: any record id, in or out of
\* range (deleteTuple reads only the Rid of its argument).
DeleteInputs ==
  {Tuple(FileDesc, <<1>>, getRecordID(p, s)) :
     p \in (-1)..pageCount, s \in (-1)..(newHeapPage(FileDesc, 0).slotCount)}

\* f.insertTuple(t, tid)
InsertTuple(t) ==
  \E r \in HeapFile_insertTuple(FS, t) :
    /\ inserts < MaxInserts
    /\ Commit(r.fs)
    /\ ret' = IF r.err = "nil"
              THEN Ret("insertTuple", r.err, <<t>>, r.pageNo, r.path)
              ELSE Ret("insertTuple", r.err, Nil, -1, "none")
    /\ inserted' = IF r.err = "nil" /\ ~deleted
                   THEN inserted (+) SetToBag({t.Fields}) ELSE inserted
    /\ inserts' = IF r.err = "nil" THEN inserts + 1 ELSE inserts
    /\ quiet' = (quiet /\ r.err # "nil")
    /\ out' = IF r.err = "nil" THEN <<>> ELSE out
    /\ UNCHANGED <<h, rt, PageNum, deleted, opVars>>

\* f.deleteTuple(t, tid)
DeleteTuple(t) ==
  \E r \in HeapFile_deleteTuple(FS, t) :
    /\ Commit(r.fs)
    /\ ret' = IF r.err = "nil"
              THEN Ret("deleteTuple", r.err, <<t>>, r.pageNo, "none")
              ELSE Ret("deleteTuple", r.err, Nil, -1, "none")
    /\ deleted' = (deleted \/ r.err = "nil")
    /\ inserted' = IF r.err = "nil" THEN EmptyBag ELSE inserted
    /\ quiet' = (quiet /\ r.err # "nil")
    /\ out' = IF r.err = "nil" THEN <<>> ELSE out
    /\ UNCHANGED <<h, rt, PageNum, inserts, opVars>>

\* f.Iterator(tid)
NewIterator ==
  /\ iterIndex' = 0
  /\ tupleIterMap' = [i \in 0..(MaxPages - 1) |-> Nil]
  /\ out' = <<>>
  /\ quiet' = TRUE
  /\ evicted' = {}
  /\ ret' = Ret("Iterator", "nil", Nil, -1, "none")
  /\ UNCHANGED <<h, rt, Pages, PageNum, file, idlePage, pageCount, histVars,
                 opVars>>

\* One call of the function f.Iterator(tid) returned.  out records what a
\* scan with no interleaved insertTuple or deleteTuple has yielded.
IterNext ==
  /\ iterIndex >= 0
  /\ \E r \in HeapFile_iterNext(FS, iterIndex) :
       /\ Commit(r.fs)
       /\ out' = IF r.tuple = Nil \/ ~quiet THEN out ELSE Append(out, r.tuple[1])
       /\ ret' = Ret("next", r.err, r.tuple, -1, "none")
  /\ UNCHANGED <<h, rt, PageNum, quiet, histVars, opVars>>

\* bufPool.GetPage(f, pageNo, tid, perm)
BufGetPage(pageNo) ==
  \E g \in GetPage(FS, pageNo) :
    /\ Commit(g.fs)
    /\ ret' = Ret("GetPage", g.err, Nil, pageNo, "none")
    /\ UNCHANGED <<h, rt, PageNum, scanVars, histVars, opVars>>

\* bufPool.FlushAllPages()
FlushAll ==
  /\ Commit(FlushAllPages(FS))
  /\ ret' = Ret("FlushAllPages", "nil", Nil, -1, "none")
  /\ UNCHANGED <<h, rt, PageNum, scanVars, histVars, opVars>>

\* f.flushPage(p) on a resident page
FlushPage(pageNo) ==
  /\ pageNo \in DOMAIN Pages
  /\ LET r == flushPage(file, Pages[pageNo]) IN
       Commit([FS EXCEPT !.file = r.file, !.Pages[pageNo] = r.page])
  /\ ret' = Ret("flushPage", "nil", Nil, -1, "none")
  /\ UNCHANGED <<h, rt, PageNum, scanVars, histVars, opVars>>

\* No operator besides InsertOp is under test.
NoOp == [kind |-> "none"]

InitFile ==
  InitCommon /\ child = <<>> /\ opState = NoOp /\ PageNum \in 1..MaxPageNum

\* The heap file and the buffer pool under direct calls.
NextFile ==
  \/ \E t \in InsertInputs : InsertTuple(t)
  \/ \E t \in DeleteInputs : DeleteTuple(t)
  \/ \E pageNo \in 0..pageCount : BufGetPage(pageNo)
  \/ FlushAll
  \/ \E pageNo \in DOMAIN Pages : FlushPage(pageNo)

SpecFile == InitFile /\ [][NextFile]_vars

\* The tuple the iterator has just returned, if any.
Scanned == IF ret.op = "next" /\ ret.tuple # Nil THEN {ret.tuple[1]} ELSE {}

\* A client that scans the heap file and, between the calls of its iterator,
\* inserts tuples, deletes the tuple just scanned, gets pages and flushes.
NextScan ==
  \/ \E v \in Values : InsertTuple(Tuple(FileDesc, <<v>>, Nil))
  \/ \E t \in Scanned : DeleteTuple(t)
  \/ NewIterator
  \/ IterNext
  \/ \E pageNo \in 0..(pageCount - 1) : BufGetPage(pageNo)
  \/ FlushAll

SpecScan == InitFile /\ [][NextScan]_vars

\* ------------------------------------------------------------- one heap page
fileOnly == <<Pages, PageNum, file, idlePage, pageCount, iterIndex,
              tupleIterMap, evicted>>

\* h.insertTuple(t); on success t.Rid is the id returned.
PageInsert(v) ==
  LET r == heapPage_insertTuple(h, Tuple(FileDesc, <<v>>, Nil)) IN
  /\ h' = r.h
  /\ rt' = Nil
  /\ ret' = Ret("heapPage.insertTuple", r.err,
                IF r.err = "nil" THEN <<Tuple(FileDesc, <<v>>, r.id)>> ELSE Nil,
                -1, "none")
  /\ UNCHANGED <<fileOnly, scanVars, histVars, opVars>>

\* h.deleteTuple(rid); ret.tuple records the rid passed.
PageDelete(rid) ==
  LET r == heapPage_deleteTuple(h, rid) IN
  /\ h' = r.h
  /\ rt' = Nil
  /\ ret' = Ret("heapPage.deleteTuple", r.err, <<[Rid |-> rid]>>, -1, "none")
  /\ UNCHANGED <<fileOnly, scanVars, histVars, opVars>>

\* h.setDirty(tid, dirty)
PageSetDirty(dirty) ==
  /\ h' = [h EXCEPT !.dirty = dirty]
  /\ ret' = Ret("heapPage.setDirty", "nil", Nil, -1, "none")
  /\ UNCHANGED <<rt, fileOnly, scanVars, histVars, opVars>>

\* buf := h.toBuffer(), then initFromBuffer(buf) on the page object readPage
\* makes for h's page number.
PageRoundTrip ==
  /\ rt' = <<initFromBuffer(
               [pageNo |-> h.pageNo, dirty |-> FALSE, desc |-> h.desc,
                slotCount |-> 0, slotUsed |-> 0, tuples |-> <<>>],
               toBuffer(h))>>
  /\ ret' = Ret("initFromBuffer", "nil", Nil, -1, "none")
  /\ UNCHANGED <<h, fileOnly, scanVars, histVars, opVars>>

InitPage == InitCommon /\ child = <<>> /\ opState = NoOp /\ PageNum = 1

NextPage ==
  \/ \E v \in Values : PageInsert(v)
  \/ \E slot \in (-1)..h.slotCount : PageDelete(getRecordID(h.pageNo, slot))
  \/ \E dirty \in BOOLEAN : PageSetDirty(dirty)
  \/ PageRoundTrip

SpecPage == InitPage /\ [][NextPage]_vars

\* ------------------------------------------------------------- InsertOp
\* What one call of a child iterator returns: a tuple, or an error.
ChildItems ==
  {[tuple |-> <<Tuple(FileDesc, <<v>>, Nil)>>, err |-> "nil"] : v \in Values}
    \cup {[tuple |-> <<Tuple(OtherDesc, <<1, 1>>, Nil)>>, err |-> "nil"],
          [tuple |-> Nil, err |-> "ChildError"]}

\* The streams a child operator yields each time its Iterator is opened.
Children == UNION {[1..n -> ChildItems] : n \in 0..MaxChild}

\* InsertOp.Descriptor(): one IntType field named count.
InsertOp_Descriptor == <<"int">>

RECURSIVE InsertOp_drain_mutNoCount(_, _, _, _)
InsertOp_drain_mutNoCount(fs, items, insert, log) ==
  IF items = <<>>
  THEN {[fs |-> fs, err |-> "nil", insert |-> insert, log |-> log,
         seen |-> <<>>]}
  ELSE IF items[1].err # "nil"
  THEN {[fs |-> fs, err |-> items[1].err, insert |-> insert, log |-> log,
         seen |-> <<items[1].err>>]}
  ELSE UNION {
         IF r.err # "nil"
         THEN {[fs |-> r.fs, err |-> r.err, insert |-> insert,
                log |-> Append(log, items[1].tuple[1]), seen |-> <<>>]}
         ELSE InsertOp_drain_mutNoCount(r.fs, Tail(items), insert,
                                        Append(log, items[1].tuple[1]))
         : r \in HeapFile_insertTuple(fs, items[1].tuple[1])}

\* The loop of InsertOp's iterFunc over what is left of the child's stream:
\* every way it can end, as the file state, the error, the counter insert
\* and the tuples passed to insertTuple.
RECURSIVE InsertOp_drain(_, _, _, _)
InsertOp_drain(fs, items, insert, log) ==
  IF items = <<>>
  THEN {[fs |-> fs, err |-> "nil", insert |-> insert, log |-> log,
         seen |-> <<>>]}
  ELSE IF items[1].err # "nil"
  THEN {[fs |-> fs, err |-> items[1].err, insert |-> insert, log |-> log,
         seen |-> <<items[1].err>>]}
  ELSE UNION {
         IF r.err # "nil"
         THEN {[fs |-> r.fs, err |-> r.err, insert |-> insert,
                log |-> Append(log, items[1].tuple[1]), seen |-> <<>>]}
         ELSE InsertOp_drain(r.fs, Tail(items), insert + 1,
                             Append(log, items[1].tuple[1]))
         : r \in HeapFile_insertTuple(fs, items[1].tuple[1])}

\* One call of the function InsertOp.Iterator(tid) returned: it opens the
\* child's iterator, drains it into insertFile and replies with the count.
InsertOpNext ==
  /\ calls < MaxCalls
  /\ \E r \in InsertOp_drain(FS, child, 0, <<>>) :
       /\ inserts + r.insert <= MaxInserts
       /\ Commit(r.fs)
       /\ ret' = IF r.err = "nil"
                 THEN Ret("InsertOp", "nil",
                          <<Tuple(InsertOp_Descriptor, <<r.insert>>, Nil)>>,
                          -1, "none")
                 ELSE Ret("InsertOp", r.err, Nil, -1, "none")
       /\ calls' = calls + 1
       /\ emitted' = IF r.err = "nil" THEN emitted + 1 ELSE emitted
       /\ insertLog' = insertLog \o r.log
       /\ inserts' = inserts + r.insert
       /\ inserted' = inserted (+)
                        BagOfSeq([i \in 1..r.insert |-> r.log[i].Fields])
       /\ quiet' = (quiet /\ r.insert = 0)
       /\ out' = IF r.insert = 0 THEN out ELSE <<>>
       /\ seen' = r.seen
  /\ UNCHANGED <<h, rt, PageNum, deleted, child, opState>>

InitOp ==
  InitCommon /\ child \in Children /\ opState = NoOp /\ PageNum \in 1..MaxPageNum

\* A client that inserts into the file directly, flushes the pool, and calls
\* the iterator of an InsertOp over the file.
NextOp ==
  \/ \E v \in Values : InsertTuple(Tuple(FileDesc, <<v>>, Nil))
  \/ FlushAll
  \/ InsertOpNext

SpecOp == InitOp /\ [][NextOp]_vars

\* ------------------------------------------------------------- DeleteOp
\* DeleteOp.Descriptor(): one IntType field named count.
DeleteOp_Descriptor == <<"int">>

\* A DeleteOp over the heap file whose child is a sequential scan of that
\* file: calls counts the calls of its iterator, emitted the count tuples
\* returned, opened the times the child was opened, log the tuples passed
\* to deleteFile.deleteTuple.
NewDeleteOp == [kind |-> "DeleteOp", calls |-> 0, emitted |-> 0, opened |-> 0,
                log |-> <<>>]

\* d.child.Iterator(tid) for a scan child: a new HeapFile iterator.
OpenScan(fs) ==
  [fs EXCEPT !.iterIndex = 0, !.tim = [i \in DOMAIN fs.tim |-> Nil]]

RECURSIVE DeleteOp_drain_mutSkipDelete(_, _, _)
DeleteOp_drain_mutSkipDelete(fs, del, log) ==
  UNION {
    IF n.err # "nil"
    THEN {[fs |-> n.fs, err |-> n.err, del |-> del, log |-> log,
           seen |-> <<n.err>>]}
    ELSE IF n.tuple = Nil
    THEN {[fs |-> n.fs, err |-> "nil", del |-> del, log |-> log,
           seen |-> <<>>]}
    ELSE DeleteOp_drain_mutSkipDelete(n.fs, del + 1, Append(log, n.tuple[1]))
    : n \in HeapFile_iterNext(fs, fs.iterIndex)}

\* The loop of DeleteOp's iterFunc: every way it can end, as the file state,
\* the error, the counter del and the tuples passed to deleteTuple.
RECURSIVE DeleteOp_drain(_, _, _)
DeleteOp_drain(fs, del, log) ==
  UNION {
    IF n.err # "nil"
    THEN {[fs |-> n.fs, err |-> n.err, del |-> del, log |-> log,
           seen |-> <<n.err>>]}
    ELSE IF n.tuple = Nil
    THEN {[fs |-> n.fs, err |-> "nil", del |-> del, log |-> log,
           seen |-> <<>>]}
    ELSE UNION {
           IF d.err # "nil"
           THEN {[fs |-> d.fs, err |-> d.err, del |-> del,
                  log |-> Append(log, n.tuple[1]), seen |-> <<>>]}
           ELSE DeleteOp_drain(d.fs, del + 1, Append(log, n.tuple[1]))
           : d \in HeapFile_deleteTuple(n.fs, n.tuple[1])}
    : n \in HeapFile_iterNext(fs, fs.iterIndex)}

\* One call of the function DeleteOp.Iterator(tid) returned: it opens the
\* child's iterator, deletes what the child yields and replies with the
\* count.  The child's iterator is local to the call.
DeleteOpNext ==
  /\ opState.kind = "DeleteOp"
  /\ opState.calls < MaxCalls
  /\ \E r \in DeleteOp_drain(OpenScan(FS), 0, <<>>) :
       /\ Commit([r.fs EXCEPT !.iterIndex = -1,
                              !.tim = [i \in DOMAIN r.fs.tim |-> Nil]])
       /\ ret' = IF r.err = "nil"
                 THEN Ret("DeleteOp", "nil",
                          <<Tuple(DeleteOp_Descriptor, <<r.del>>, Nil)>>,
                          -1, "none")
                 ELSE Ret("DeleteOp", r.err, Nil, -1, "none")
       /\ opState' = [opState EXCEPT !.calls = @ + 1,
                           !.emitted = IF r.err = "nil" THEN @ + 1 ELSE @,
                           !.opened = @ + 1,
                           !.log = @ \o r.log]
       /\ deleted' = (deleted \/ r.del > 0)
       /\ inserted' = IF r.del > 0 THEN EmptyBag ELSE inserted
       /\ seen' = r.seen
  /\ quiet' = TRUE
  /\ out' = <<>>
  /\ UNCHANGED <<h, rt, PageNum, inserts, child, calls, insertLog, emitted>>

InitDel ==
  /\ InitCommon /\ PageNum \in 1..MaxPageNum
  /\ child \in {c \in Children : \A i \in DOMAIN c : c[i].tuple # Nil
                                     /\ c[i].tuple[1].Desc = FileDesc}
  /\ opState = NewDeleteOp

\* A client that fills an empty heap file through an InsertOp and direct
\* insertTuple calls, then runs a DeleteOp over a scan of the file, and
\* scans the file afterwards.
NextDel ==
  \/ opState.calls = 0 /\ \E v \in Values : InsertTuple(Tuple(FileDesc, <<v>>, Nil))
  \/ opState.calls = 0 /\ InsertOpNext
  \/ DeleteOpNext
  \/ opState.calls > 0 /\ NewIterator
  \/ opState.calls > 0 /\ IterNext

SpecDel == InitDel /\ [][NextDel]_vars

\* ------------------------------------------------------------- InsertOp over a scan of its own file
\* An InsertOp whose insertFile is the heap file and whose child is a
\* sequential scan of that same file.
NewInsertOpScan == [kind |-> "InsertOpScan", calls |-> 0]

\* The loop of InsertOp's iterFunc when childIter is the iterator of
\* insertFile itself: what the scan yields is inserted into the file the
\* scan is reading.  Every way the loop can end, as the file state, the
\* error, the counter insert and the tuples passed to insertTuple.
RECURSIVE InsertOp_drainScan(_, _, _)
InsertOp_drainScan(fs, insert, log) ==
  UNION {
    IF n.err # "nil"
    THEN {[fs |-> n.fs, err |-> n.err, insert |-> insert, log |-> log,
           seen |-> <<n.err>>]}
    ELSE IF n.tuple = Nil
    THEN {[fs |-> n.fs, err |-> "nil", insert |-> insert, log |-> log,
           seen |-> <<>>]}
    ELSE UNION {
           IF r.err # "nil"
           THEN {[fs |-> r.fs, err |-> r.err, insert |-> insert,
                  log |-> Append(log, n.tuple[1]), seen |-> <<>>]}
           ELSE InsertOp_drainScan(r.fs, insert + 1, Append(log, n.tuple[1]))
           : r \in HeapFile_insertTuple(n.fs, [n.tuple[1] EXCEPT !.Rid = Nil])}
    : n \in HeapFile_iterNext(fs, fs.iterIndex)}

\* One call of the function InsertOp.Iterator(tid) returned, the child
\* being a scan of insertFile.  The child's iterator is local to the call.
InsertOpScanNext ==
  /\ opState.kind = "InsertOpScan"
  /\ opState.calls < MaxCalls
  /\ \E r \in InsertOp_drainScan(OpenScan(FS), 0, <<>>) :
       /\ Commit([r.fs EXCEPT !.iterIndex = -1,
                              !.tim = [i \in DOMAIN r.fs.tim |-> Nil]])
       /\ ret' = IF r.err = "nil"
                 THEN Ret("InsertOpScan", "nil",
                          <<Tuple(InsertOp_Descriptor, <<r.insert>>, Nil)>>,
                          -1, "none")
                 ELSE Ret("InsertOpScan", r.err, Nil, -1, "none")
       /\ opState' = [opState EXCEPT !.calls = @ + 1]
       /\ insertLog' = insertLog \o r.log
       /\ inserts' = inserts + r.insert
       /\ inserted' = inserted (+)
                        BagOfSeq([i \in 1..r.insert |-> r.log[i].Fields])
       /\ seen' = r.seen
  /\ quiet' = TRUE
  /\ out' = <<>>
  /\ UNCHANGED <<h, rt, PageNum, deleted, child, calls, emitted>>

InitSelf ==
  /\ InitCommon /\ PageNum \in 1..MaxPageNum
  /\ child = <<>>
  /\ opState = NewInsertOpScan

\* A client that fills the heap file, deletes some of its tuples, and then
\* calls the iterator of an InsertOp that scans the file it inserts into.
NextSelf ==
  \/ opState.calls = 0 /\ \E v \in Values : InsertTuple(Tuple(FileDesc, <<v>>, Nil))
  \/ opState.calls = 0 /\ \E t \in DeleteInputs : DeleteTuple(t)
  \/ InsertOpScanNext

SpecSelf == InitSelf /\ [][NextSelf]_vars

\* ------------------------------------------------------------- a record id held by a client
\* A client that fills the file, takes a tuple (with its Rid) from a resident
\* page as a scan hands it out, lets the pool flush, drop and re-read pages,
\* and then calls deleteTuple with the tuple it holds.  holeBelow records
\* that the page had an empty slot below the tuple when it was taken.
NewRidHolder ==
  [kind |-> "RidHolder", phase |-> "fill", held |-> Nil, holeBelow |-> FALSE]

\* The client keeps the tuple in slot of page pageNo.
HoldRid(pageNo, slot) ==
  /\ opState.kind = "RidHolder" /\ opState.phase = "fill"
  /\ pageNo \in DOMAIN Pages
  /\ slot \in 0..(Pages[pageNo].slotCount - 1)
  /\ Pages[pageNo].tuples[slot + 1] # Nil
  /\ opState' = [opState EXCEPT
                   !.phase = "held",
                   !.held = Pages[pageNo].tuples[slot + 1],
                   !.holeBelow = \E i \in 0..(slot - 1) :
                                    Pages[pageNo].tuples[i + 1] = Nil]
  /\ ret' = Ret("hold", "nil", Pages[pageNo].tuples[slot + 1], pageNo, "none")
  /\ UNCHANGED <<h, rt, Pages, PageNum, file, idlePage, pageCount, iterIndex,
                 tupleIterMap, evicted, scanVars, histVars,
                 child, calls, insertLog, emitted, seen>>

\* f.deleteTuple(held, tid)
DeleteHeld ==
  /\ opState.kind = "RidHolder" /\ opState.phase = "held"
  /\ \E r \in HeapFile_deleteTuple(FS, opState.held[1]) :
       /\ Commit(r.fs)
       /\ ret' = IF r.err = "nil"
                 THEN Ret("deleteTuple", r.err, opState.held, r.pageNo, "none")
                 ELSE Ret("deleteTuple", r.err, Nil, -1, "none")
       /\ deleted' = (deleted \/ r.err = "nil")
       /\ inserted' = IF r.err = "nil" THEN EmptyBag ELSE inserted
       /\ quiet' = (quiet /\ r.err # "nil")
       /\ out' = IF r.err = "nil" THEN <<>> ELSE out
  /\ opState' = [opState EXCEPT !.phase = "deleted"]
  /\ UNCHANGED <<h, rt, PageNum, inserts, child, calls, insertLog, emitted, seen>>

InitRid ==
  /\ InitCommon /\ PageNum \in 1..MaxPageNum
  /\ child = <<>>
  /\ opState = NewRidHolder

NextRid ==
  \/ opState.phase = "fill" /\ \E v \in Values : InsertTuple(Tuple(FileDesc, <<v>>, Nil))
  \/ opState.phase = "fill" /\ \E t \in DeleteInputs : DeleteTuple(t)
  \/ \E pageNo \in 0..pageCount, slot \in 0..(PageSize \div IntSize) : HoldRid(pageNo, slot)
  \/ opState.phase = "held" /\ FlushAll
  \/ opState.phase = "held" /\ \E pageNo \in 0..pageCount : BufGetPage(pageNo)
  \/ DeleteHeld

SpecRid == InitRid /\ [][NextRid]_vars

\* ------------------------------------------------------------- child streams
\* No reply yet / the reply (nil, nil).
EndOfStream == [tuple |-> Nil, err |-> "nil"]

\* What the call of a child iterator returns after pos earlier calls: the
\* next item of its stream, and (nil, nil) once the stream is over.
childIter(stream, pos) ==
  IF pos < Len(stream) THEN stream[pos + 1] ELSE EndOfStream

\* Every child-related variable the operators below leave alone.
fileVars == <<h, rt, Pages, PageNum, file, idlePage, pageCount, iterIndex,
              tupleIterMap, evicted, scanVars, histVars>>

\* ------------------------------------------------------------- LimitOp
\* l.Iterator(tid) of a LimitOp with the given limit: the child iterator is
\* opened once, at position 0, and count starts at 0; replies is the
\* history of what the calls of iterFunc returned.
NewLimitOp(limit) ==
  [kind |-> "LimitOp", limit |-> limit, pos |-> 0, count |-> 0,
   replies |-> <<>>]

LimitOp_iterFunc_mutOffByOne(st, stream) ==
  LET item == childIter(stream, st.pos) IN
  IF item.err # "nil"
  THEN [st |-> [st EXCEPT !.pos = @ + 1],
        reply |-> [tuple |-> Nil, err |-> item.err], seen |-> <<item.err>>]
  ELSE IF item.tuple = Nil
  THEN [st |-> st, reply |-> EndOfStream, seen |-> <<>>]
  ELSE IF st.count > st.limit
  THEN [st |-> [st EXCEPT !.pos = @ + 1], reply |-> EndOfStream,
        seen |-> <<>>]
  ELSE [st |-> [st EXCEPT !.pos = @ + 1, !.count = @ + 1],
        reply |-> [tuple |-> item.tuple, err |-> "nil"], seen |-> <<>>]

\* One call of the function LimitOp.Iterator returned, on closure state st
\* over the child stream: the new closure state and the reply.
LimitOp_iterFunc(st, stream) ==
  LET item == childIter(stream, st.pos) IN
  IF item.err # "nil"
  THEN [st |-> [st EXCEPT !.pos = @ + 1],
        reply |-> [tuple |-> Nil, err |-> item.err], seen |-> <<item.err>>]
  ELSE IF item.tuple = Nil
  THEN [st |-> st, reply |-> EndOfStream, seen |-> <<>>]
  ELSE IF st.count >= st.limit
  THEN [st |-> [st EXCEPT !.pos = @ + 1], reply |-> EndOfStream,
        seen |-> <<>>]
  ELSE [st |-> [st EXCEPT !.pos = @ + 1, !.count = @ + 1],
        reply |-> [tuple |-> item.tuple, err |-> "nil"], seen |-> <<>>]

LimitOpNext ==
  /\ opState.kind = "LimitOp"
  /\ Len(opState.replies) < MaxOpCalls
  /\ LET r == LimitOp_iterFunc(opState, child) IN
       /\ opState' = [r.st EXCEPT !.replies = Append(@, r.reply)]
       /\ ret' = Ret("LimitOp", r.reply.err, r.reply.tuple, -1, "none")
       /\ seen' = r.seen
  /\ UNCHANGED <<fileVars, child, calls, insertLog, emitted>>

InitLimit ==
  /\ InitCommon /\ PageNum = 1
  /\ child \in Children
  /\ \E limit \in (-1)..MaxLimit : opState = NewLimitOp(limit)

NextLimit == LimitOpNext

SpecLimit == InitLimit /\ [][NextLimit]_vars

\* ------------------------------------------------------------- expressions
\* A tuple on which the operators' expressions cannot be evaluated.
NoFields == Tuple(<<>>, <<>>, Nil)

\* expr.EvalExpr(t) for the expression "field number i" (from 1): the value,
\* or an error when the tuple has no such field.
EvalExpr(i, t) ==
  IF i > Len(t.Fields) THEN [val |-> 0, err |-> "FieldNotFoundError"]
  ELSE [val |-> t.Fields[i], err |-> "nil"]

\* joinTuples(t1, t2): the fields of t1, then the fields of t2.
joinTuples(t1, t2) == Tuple(t1.Desc \o t2.Desc, t1.Fields \o t2.Fields, Nil)

\* The streams of the operators' children: one-field tuples on the left,
\* two-field tuples on the right, a tuple the expressions fail on, an error.
StreamsOf(items) == UNION {[1..n -> items] : n \in 0..MaxChild}

LeftItems ==
  {[tuple |-> <<Tuple(FileDesc, <<v>>, Nil)>>, err |-> "nil"] : v \in Values}
    \cup {[tuple |-> <<NoFields>>, err |-> "nil"],
          [tuple |-> Nil, err |-> "ChildError"]}

RightItems ==
  {[tuple |-> <<Tuple(OtherDesc, <<v, 0>>, Nil)>>, err |-> "nil"] : v \in Values}
    \cup {[tuple |-> <<NoFields>>, err |-> "nil"],
          [tuple |-> Nil, err |-> "ChildError"]}

\* ------------------------------------------------------------- EqualityJoin
\* joinOp.Iterator(tid) of NewJoin(left, field 1, right, field 1,
\* maxBufferSize): the closure variables of iterFunc.  joinBufMap keeps the
\* buffered left tuples in the order read; the entry of a key is the
\* subsequence with that key.  rightOpens counts the calls of
\* right.Iterator(tid); it is history, not closure state.
NewJoin(left, right, maxBufferSize) ==
  [kind |-> "Join", left |-> left, right |-> right,
   maxBufferSize |-> maxBufferSize,
   leftPos |-> 0, reset |-> TRUE, leftScanEnd |-> FALSE, joinBufMap |-> <<>>,
   rightPos |-> 0, validTupleCh |-> <<>>, replies |-> <<>>, running |-> FALSE,
   rightOpens |-> 0]

matchTuplesOf_mutNewestFirst(joinBufMap, val) ==
  LET m == SelectSeq(joinBufMap, LAMBDA t : EvalExpr(1, t).val = val) IN
  [k \in DOMAIN m |-> m[Len(m) + 1 - k]]

matchTuplesOf_mutOverwrite(joinBufMap, val) ==
  LET m == SelectSeq(joinBufMap, LAMBDA t : EvalExpr(1, t).val = val) IN
  IF m = <<>> THEN m ELSE <<m[Len(m)]>>

\* joinBufMap[val]
matchTuplesOf(joinBufMap, val) ==
  SelectSeq(joinBufMap, LAMBDA t : EvalExpr(1, t).val = val)

RECURSIVE fillJoinBufMap_mutOneMore(_, _, _)
fillJoinBufMap_mutOneMore(st, i, buf) ==
  IF i > st.maxBufferSize
  THEN [st |-> [st EXCEPT !.joinBufMap = buf], err |-> "nil", seen |-> <<>>]
  ELSE LET item == childIter(st.left, st.leftPos) IN
       IF item.err # "nil"
       THEN [st |-> [st EXCEPT !.joinBufMap = buf, !.leftPos = @ + 1],
             err |-> item.err, seen |-> <<item.err>>]
       ELSE IF item.tuple = Nil
       THEN [st |-> [st EXCEPT !.joinBufMap = buf, !.leftScanEnd = TRUE],
             err |-> "nil", seen |-> <<>>]
       ELSE LET tmpVal == EvalExpr(1, item.tuple[1]) IN
            IF tmpVal.err # "nil"
            THEN [st |-> [st EXCEPT !.joinBufMap = buf, !.leftPos = @ + 1],
                  err |-> tmpVal.err, seen |-> <<tmpVal.err>>]
            ELSE fillJoinBufMap_mutOneMore([st EXCEPT !.leftPos = @ + 1], i + 1,
                                           Append(buf, item.tuple[1]))

\* The loop of fillJoinBufMap from its iteration i on, having buffered buf:
\* the closure state afterwards and the error.
RECURSIVE fillJoinBufMap(_, _, _)
fillJoinBufMap(st, i, buf) ==
  IF i >= st.maxBufferSize
  THEN [st |-> [st EXCEPT !.joinBufMap = buf], err |-> "nil", seen |-> <<>>]
  ELSE LET item == childIter(st.left, st.leftPos) IN
       IF item.err # "nil"
       THEN [st |-> [st EXCEPT !.joinBufMap = buf, !.leftPos = @ + 1],
             err |-> item.err, seen |-> <<item.err>>]
       ELSE IF item.tuple = Nil
       THEN [st |-> [st EXCEPT !.joinBufMap = buf, !.leftScanEnd = TRUE],
             err |-> "nil", seen |-> <<>>]
       ELSE LET tmpVal == EvalExpr(1, item.tuple[1]) IN
            IF tmpVal.err # "nil"
            THEN [st |-> [st EXCEPT !.joinBufMap = buf, !.leftPos = @ + 1],
                  err |-> tmpVal.err, seen |-> <<tmpVal.err>>]
            ELSE fillJoinBufMap([st EXCEPT !.leftPos = @ + 1], i + 1,
                                Append(buf, item.tuple[1]))

\* What stands for the reply of a call that never returns.
NoReturn == [tuple |-> Nil, err |-> "no return"]

\* The for loop of iterFunc (lines 81-130) from closure state st: the state
\* when it returns, and the reply.  heads holds the closure states in which
\* the loop has already started an iteration with reset set: the loop is
\* deterministic, so starting an iteration in such a state again means that
\* it repeats forever and the call never returns.
RECURSIVE joinLoop(_, _)
joinLoop(st, heads) ==
  IF st.reset
  THEN IF st.leftScanEnd
       THEN [st |-> st, reply |-> EndOfStream, seen |-> <<>>]
       ELSE IF [st EXCEPT !.rightOpens = 0] \in heads
       THEN [st |-> st, reply |-> NoReturn, seen |-> <<>>]
       ELSE LET f == fillJoinBufMap(st, 0, <<>>) IN
            IF f.err # "nil"
            THEN [st |-> f.st, reply |-> [tuple |-> Nil, err |-> f.err],
                  seen |-> f.seen]
            ELSE joinLoop([f.st EXCEPT !.rightPos = 0, !.reset = FALSE,
                                       !.rightOpens = @ + 1],
                          heads \cup {[st EXCEPT !.rightOpens = 0]})
  ELSE LET item == childIter(st.right, st.rightPos) IN
       IF item.err # "nil"
       THEN [st |-> [st EXCEPT !.rightPos = @ + 1],
             reply |-> [tuple |-> Nil, err |-> item.err],
             seen |-> <<item.err>>]
       ELSE IF item.tuple = Nil
       THEN joinLoop([st EXCEPT !.reset = TRUE], heads)
       ELSE LET rightTmpVal == EvalExpr(1, item.tuple[1]) IN
            IF rightTmpVal.err # "nil"
            THEN [st |-> [st EXCEPT !.rightPos = @ + 1],
                  reply |-> [tuple |-> Nil, err |-> rightTmpVal.err],
                  seen |-> <<rightTmpVal.err>>]
            ELSE LET matchTuples ==
                       matchTuplesOf(st.joinBufMap, rightTmpVal.val)
                     ch == [k \in DOMAIN matchTuples |->
                              joinTuples(matchTuples[k], item.tuple[1])]
                 IN IF Len(matchTuples) = 0
                    THEN joinLoop([st EXCEPT !.rightPos = @ + 1], heads)
                    ELSE [st |-> [st EXCEPT !.rightPos = @ + 1,
                                            !.validTupleCh = Tail(ch)],
                          reply |-> [tuple |-> <<Head(ch)>>, err |-> "nil"],
                          seen |-> <<>>]

\* One call of the function EqualityJoin.Iterator returned.
EqualityJoin_iterFunc(st) ==
  IF Len(st.validTupleCh) > 0
  THEN [st |-> [st EXCEPT !.validTupleCh = Tail(@)],
        reply |-> [tuple |-> <<Head(st.validTupleCh)>>, err |-> "nil"],
        seen |-> <<>>]
  ELSE joinLoop(st, {})

\* One call of the function EqualityJoin.Iterator(tid) returned, or, when
\* the call never returns, the caller is left waiting in it (running).
JoinNext ==
  /\ opState.kind = "Join"
  /\ ~opState.running
  /\ Len(opState.replies) < MaxOpCalls
  /\ LET r == EqualityJoin_iterFunc(opState) IN
       IF r.reply = NoReturn
       THEN /\ opState' = [r.st EXCEPT !.running = TRUE]
            /\ UNCHANGED <<ret, seen>>
       ELSE /\ opState' = [r.st EXCEPT !.replies = Append(@, r.reply)]
            /\ ret' = Ret("Join", r.reply.err, r.reply.tuple, -1, "none")
            /\ seen' = r.seen
  /\ UNCHANGED <<fileVars, child, calls, insertLog, emitted>>

InitJoin ==
  /\ InitCommon /\ PageNum = 1 /\ child = <<>>
  /\ \E left \in StreamsOf(LeftItems), right \in StreamsOf(RightItems),
        maxBufferSize \in 0..MaxBufferSize :
       opState = NewJoin(left, right, maxBufferSize)

NextJoin == JoinNext

SpecJoin == InitJoin /\ [][NextJoin]_vars

\* Left tuples that carry, after the join key, a second field telling apart
\* the tuples of one key.
TaggedItems ==
  {[tuple |-> <<Tuple(OtherDesc, <<v, w>>, Nil)>>, err |-> "nil"] :
     v \in Values, w \in Values}

InitJoinTagged ==
  /\ InitCommon /\ PageNum = 1 /\ child = <<>>
  /\ \E left \in StreamsOf(TaggedItems), right \in StreamsOf(RightItems),
        maxBufferSize \in 0..MaxBufferSize :
       opState = NewJoin(left, right, maxBufferSize)

\* The join over left tuples that can be told apart within a key.
SpecJoinTagged == InitJoinTagged /\ [][NextJoin]_vars

\* A caller that keeps calling the join's iterator for as long as its calls
\* return; replies keeps the last reply only and rightOpens is not kept.
JoinCall ==
  /\ opState.kind = "Join"
  /\ ~opState.running
  /\ LET r == EqualityJoin_iterFunc(opState) IN
       IF r.reply = NoReturn
       THEN /\ opState' = [r.st EXCEPT !.running = TRUE, !.rightOpens = 0]
            /\ UNCHANGED <<ret, seen>>
       ELSE /\ opState' = [r.st EXCEPT !.replies = <<r.reply>>,
                                       !.rightOpens = 0]
            /\ ret' = Ret("Join", r.reply.err, r.reply.tuple, -1, "none")
            /\ seen' = r.seen
  /\ UNCHANGED <<fileVars, child, calls, insertLog, emitted>>

NextJoinLive == JoinCall

\* The caller's loop runs on: a call that can be made is made.
SpecJoinLive == InitJoin /\ [][NextJoinLive]_vars /\ WF_vars(JoinCall)

\* ------------------------------------------------------------- OrderBy
\* iVal.EvalPred(jVal, OpEq) and iVal.EvalPred(jVal, OpLt) on IntFields.
EvalPred(iVal, jVal, pred) ==
  IF pred = "OpEq" THEN iVal = jVal ELSE iVal < jVal

sortTuples_Less_mutIgnoreAscending(orderBy, ascending, index, iTup, jTup) ==
  \E k \in index..Len(orderBy) :
    /\ \A m \in index..(k - 1) :
         /\ EvalExpr(orderBy[m], iTup).err = "nil"
         /\ EvalExpr(orderBy[m], jTup).err = "nil"
         /\ EvalExpr(orderBy[m], iTup).val = EvalExpr(orderBy[m], jTup).val
    /\ EvalExpr(orderBy[k], iTup).err = "nil"
    /\ EvalExpr(orderBy[k], jTup).err = "nil"
    /\ EvalExpr(orderBy[k], iTup).val < EvalExpr(orderBy[k], jTup).val

\* sortTuples.Less(i, j) on the tuples at i and j, its range loop being at
\* position index (from 1) of orderBy.
RECURSIVE sortTuples_Less(_, _, _, _, _)
sortTuples_Less(orderBy, ascending, index, iTup, jTup) ==
  IF index > Len(orderBy) THEN FALSE
  ELSE LET iVal == EvalExpr(orderBy[index], iTup)
           jVal == EvalExpr(orderBy[index], jTup)
       IN IF iVal.err # "nil" THEN FALSE
          ELSE IF jVal.err # "nil" THEN FALSE
          ELSE IF EvalPred(iVal.val, jVal.val, "OpEq")
          THEN sortTuples_Less(orderBy, ascending, index + 1, iTup, jTup)
          ELSE LET ascend == ascending[index]
                   less == EvalPred(iVal.val, jVal.val, "OpLt")
               IN (ascend /\ less) \/ (~ascend /\ ~less)

\* The rearrangements of a sequence.
PermutationsOf(seq) ==
  {[i \in DOMAIN seq |-> seq[f[i]]] :
     f \in {g \in [DOMAIN seq -> DOMAIN seq] :
              \A i, j \in DOMAIN seq : g[i] = g[j] => i = j}}

\* Every key expression evaluates on every tuple.
Sortable(allTuples, orderBy) ==
  \A i \in DOMAIN allTuples, k \in DOMAIN orderBy :
    EvalExpr(orderBy[k], allTuples[i]).err = "nil"

\* sort.Sort(sortTuples{allTuples, orderBy, ascending}): every result the
\* library may produce.  It rearranges the slice so that no element is
\* Less than an element before it, and does not promise to keep the order
\* of elements neither of which is Less than the other; when Less is not an
\* ordering (an expression fails) it promises a rearrangement only.
sort_Sort(allTuples, orderBy, ascending) ==
  IF Sortable(allTuples, orderBy)
  THEN {s \in PermutationsOf(allTuples) :
          \A i, j \in DOMAIN s :
            i < j => ~sortTuples_Less(orderBy, ascending, 1, s[j], s[i])}
  ELSE PermutationsOf(allTuples)

\* The tuples OrderBy sorts: two int fields, and a tuple without fields.
SortItems ==
  {[tuple |-> <<Tuple(OtherDesc, <<v, w>>, Nil)>>, err |-> "nil"] :
     v \in Values, w \in Values}
    \cup {[tuple |-> <<NoFields>>, err |-> "nil"]}

\* The sort keys tried: field 1, or field 1 then field 2.
SortKeys == {<<1>>, <<1, 2>>}

\* o.Iterator(tid) of NewOrderBy(orderBy, child, ascending) over a child
\* that returns no error: the child is drained and sorted before iterFunc
\* is returned; allTuples and index are iterFunc's closure variables.
NewOrderByIterator(orderBy, ascending, allTuples) ==
  [kind |-> "OrderBy", orderBy |-> orderBy, ascending |-> ascending,
   allTuples |-> allTuples, index |-> 0, replies |-> <<>>]

\* One call of the function OrderBy.Iterator returned.
OrderBy_iterFunc(st) ==
  IF st.index >= Len(st.allTuples)
  THEN [st |-> st, reply |-> EndOfStream]
  ELSE [st |-> [st EXCEPT !.index = @ + 1],
        reply |-> [tuple |-> <<st.allTuples[st.index + 1]>>, err |-> "nil"]]

OrderByNext ==
  /\ opState.kind = "OrderBy"
  /\ Len(opState.replies) < MaxOpCalls
  /\ LET r == OrderBy_iterFunc(opState) IN
       /\ opState' = [r.st EXCEPT !.replies = Append(@, r.reply)]
       /\ ret' = Ret("OrderBy", r.reply.err, r.reply.tuple, -1, "none")
  /\ UNCHANGED <<fileVars, child, calls, insertLog, emitted, seen>>

InitSort ==
  /\ InitCommon /\ PageNum = 1
  /\ child \in UNION {[1..n -> SortItems] : n \in 0..MaxSortLen}
  /\ \E orderBy \in SortKeys :
       \E ascending \in [DOMAIN orderBy -> BOOLEAN] :
         \E sorted \in sort_Sort([i \in DOMAIN child |-> child[i].tuple[1]],
                                 orderBy, ascending) :
           opState = NewOrderByIterator(orderBy, ascending, sorted)

NextSort == OrderByNext

SpecSort == InitSort /\ [][NextSort]_vars

\* ------------------------------------------------------------- AvgAggState
\* Go's x / y on integers, y > 0: the quotient truncated toward zero.
IntQuo(x, y) == IF x >= 0 THEN x \div y ELSE -((-x) \div y)

\* The tuples handed to AddTuple: an int field of each value, a string
\* field, and a tuple the expression does not evaluate on.
AggValues == (-MaxAggValue)..MaxAggValue

AggItems ==
  {Tuple(<<"int">>, <<v>>, Nil) : v \in AggValues}
    \cup {Tuple(<<"string">>, <<0>>, Nil), NoFields}

\* AvgAggState after Init(alias, expr), expr being field 1; values is the
\* history of the int values added.
NewAvgAggState ==
  [kind |-> "AvgAggState", sum |-> 0, count |-> 0, adds |-> 0,
   values |-> <<>>]

AvgAggState_AddTuple(a, t) ==
  LET tmpVal == EvalExpr(1, t) IN
  IF tmpVal.err # "nil" THEN a
  ELSE IF t.Desc[1] # "int" THEN a
  ELSE [a EXCEPT !.sum = @ + tmpVal.val, !.count = @ + 1,
                 !.values = Append(@, tmpVal.val)]

\* Finalize: the one-field tuple holding sum / count; a division by zero
\* panics.
AvgAggState_Finalize(a) ==
  IF a.count = 0
  THEN [tuple |-> Nil, err |-> "panic: integer divide by zero"]
  ELSE [tuple |-> <<Tuple(<<"int">>, <<IntQuo(a.sum, a.count)>>, Nil)>>,
        err |-> "nil"]

AvgAddTuple ==
  /\ opState.kind = "AvgAggState"
  /\ opState.adds < MaxAdds
  /\ \E t \in AggItems :
       opState' = [AvgAggState_AddTuple(opState, t) EXCEPT !.adds = @ + 1]
  /\ ret' = Ret("AvgAggState.AddTuple", "nil", Nil, -1, "none")
  /\ UNCHANGED <<fileVars, child, calls, insertLog, emitted, seen>>

AvgFinalize ==
  /\ opState.kind = "AvgAggState"
  /\ LET r == AvgAggState_Finalize(opState) IN
       ret' = Ret("AvgAggState.Finalize", r.err, r.tuple, -1, "none")
  /\ UNCHANGED <<fileVars, child, calls, insertLog, emitted, opState, seen>>

InitAvg ==
  /\ InitCommon /\ PageNum = 1
  /\ child = <<>>
  /\ opState = NewAvgAggState

NextAvg == AvgAddTuple \/ AvgFinalize

SpecAvg == InitAvg /\ [][NextAvg]_vars

\* --------------------------------------------------------- computeFieldSum
\* Tuple descriptors with named fields, as computeFieldSum receives them.
FieldNames == {"a", "b"}

FieldTypes == [Fname : FieldNames, Ftype : {"int", "string"}]

TupleDescs == UNION {[1..n -> FieldTypes] : n \in 1..MaxFields}

\* findFieldInTd(FieldType{Fname: name}, td): lookup by name with an empty
\* qualifier; the first match, an error when several fields or none match.
findFieldInTd(name, td) ==
  LET matches == {i \in DOMAIN td : td[i].Fname = name} IN
  IF matches = {} THEN [index |-> 0, err |-> "FieldNotFoundError"]
  ELSE IF Cardinality(matches) > 1
  THEN [index |-> 0, err |-> "AmbiguousNameError"]
  ELSE [index |-> CHOOSE i \in matches : TRUE, err |-> "nil"]

\* A cell of a CSV line: text strconv.ParseFloat accepts (num, with the
\* integer it converts to) or rejects.
Cells ==
  {[num |-> TRUE, val |-> v] : v \in Values} \cup {[num |-> FALSE, val |-> 0]}

CsvLines == UNION {[1..n -> Cells] : n \in 1..MaxFields}

\* The CSV file named fileName: missing (Nil), or its lines.
CsvFiles == {Nil} \cup {<<lines>> : lines \in UNION {[1..n -> CsvLines] : n \in 0..MaxLines}}

\* HeapFile.LoadFromCSV(file, true, ",", false) from line cnt on: the
\* tuples handed to insertTuple and the error returned.  The first line is
\* the header; every line must have as many fields as the descriptor, and a
\* cell of an int field must parse.
RECURSIVE LoadFromCSV(_, _, _, _)
LoadFromCSV(lines, td, cnt, tuples) ==
  IF cnt > Len(lines) THEN [tuples |-> tuples, err |-> "nil"]
  ELSE LET fields == lines[cnt] IN
       IF Len(fields) # Len(td)
       THEN [tuples |-> tuples, err |-> "MalformedDataError"]
       ELSE IF cnt = 1 THEN LoadFromCSV(lines, td, cnt + 1, tuples)
       ELSE IF \E fno \in DOMAIN fields :
                 td[fno].Ftype = "int" /\ ~fields[fno].num
       THEN [tuples |-> tuples, err |-> "TypeMismatchError"]
       ELSE LoadFromCSV(lines, td, cnt + 1,
              Append(tuples,
                     Tuple([i \in DOMAIN td |-> td[i].Ftype],
                           [i \in DOMAIN fields |-> fields[i].val], Nil)))

\* The loop of computeFieldSum over the tuples the iterator returns.
RECURSIVE sumLoop(_, _, _)
sumLoop(tuples, index, reply) ==
  IF tuples = <<>> THEN [reply |-> reply, err |-> "nil"]
  ELSE IF Head(tuples).Desc[index] # "int"
  THEN [reply |-> reply, err |-> "nil"]
  ELSE sumLoop(Tail(tuples), index, reply + Head(tuples).Fields[index])

\* computeFieldSum(bp, fileName, td, sumField) on a heap file "test" that
\* starts empty and a pool with room for its pages; scanErr is the error of
\* the iterator's first call.  The named results reply and err are returned
\* as they stand at each return statement.
computeFieldSum(csv, td, sumField, scanErr) ==
  LET found == findFieldInTd(sumField, td) IN
  IF found.err # "nil" THEN [reply |-> 0, err |-> found.err]
  ELSE IF td[found.index].Ftype # "int" THEN [reply |-> 0, err |-> "nil"]
  ELSE IF csv = Nil THEN [reply |-> 0, err |-> "PathError"]
  ELSE LET loaded == LoadFromCSV(csv[1], td, 1, <<>>) IN
       IF loaded.err # "nil" THEN [reply |-> 0, err |-> loaded.err]
       ELSE IF scanErr # "nil" THEN [reply |-> 0, err |-> scanErr]
       ELSE sumLoop(loaded.tuples, found.index, 0)

ComputeFieldSum ==
  /\ opState.kind = "computeFieldSum"
  /\ ~opState.done
  /\ LET r == computeFieldSum(opState.csv, opState.td, opState.sumField,
                              opState.scanErr) IN
       /\ opState' = [opState EXCEPT !.done = TRUE, !.reply = r.reply,
                                     !.err = r.err]
       /\ ret' = Ret("computeFieldSum", r.err, Nil, -1, "none")
  /\ UNCHANGED <<fileVars, child, calls, insertLog, emitted, seen>>

InitSum ==
  /\ InitCommon /\ PageNum = 1
  /\ child = <<>>
  /\ \E csv \in CsvFiles, td \in TupleDescs,
        sumField \in FieldNames \cup {"c"},
        scanErr \in {"nil", "BufferFullError"} :
       opState = [kind |-> "computeFieldSum", csv |-> csv, td |-> td,
                  sumField |-> sumField, scanErr |-> scanErr,
                  done |-> FALSE, reply |-> 0, err |-> "nil"]

NextSum == ComputeFieldSum

SpecSum == InitSum /\ [][NextSum]_vars

\* ----------------------------------------------- LoadFromCSV on the file
\* The descriptor of the heap file, with its field named.
FileTd == <<[Fname |-> "a", Ftype |-> "int"]>>

\* The body of LoadFromCSV's loop after a line has parsed, for each tuple in
\* turn: f.insertTuple(&newT, tid), whose result is not looked at, then
\* bp.FlushAllPages().  Every outcome, as the file state and the errors the
\* insertTuple calls returned, and the Fields of the tuples stored.
RECURSIVE storeRows(_, _, _, _)
storeRows(fs, tuples, errs, stored) ==
  IF tuples = <<>> THEN {[fs |-> fs, errs |-> errs, stored |-> stored]}
  ELSE UNION {
         storeRows(FlushAllPages(r.fs), Tail(tuples),
                   IF r.err = "nil" THEN errs ELSE Append(errs, r.err),
                   IF r.err = "nil" THEN Append(stored, Head(tuples).Fields)
                   ELSE stored)
         : r \in HeapFile_insertTuple(fs, Head(tuples))}

\* f.LoadFromCSV(file, true, ",", false) on the heap file: the tuples of the
\* lines before the first line that fails to parse are stored, and the error
\* is that line's, or nil.
HeapFile_LoadFromCSV(fs, lines) ==
  LET parsed == LoadFromCSV(lines, FileTd, 1, <<>>) IN
  {[fs |-> s.fs, err |-> parsed.err, insertErrs |-> s.errs,
    rows |-> Len(parsed.tuples), stored |-> s.stored]
   : s \in storeRows(fs, parsed.tuples, <<>>, <<>>)}

\* No LoadFromCSV call yet; afterwards the number of calls, and for the
\* last one the data rows it parsed and the errors insertTuple returned.
NewLoad == [kind |-> "LoadFromCSV", loads |-> 0, rows |-> 0,
            insertErrs |-> <<>>]

LoadCSV ==
  /\ opState.kind = "LoadFromCSV"
  /\ opState.loads < MaxCalls
  /\ \E csv \in CsvFiles \ {Nil} :
       \E r \in HeapFile_LoadFromCSV(FS, csv[1]) :
         LET stored == Len(r.stored) IN
         /\ inserts + stored <= MaxInserts
         /\ Commit(r.fs)
         /\ ret' = Ret("LoadFromCSV", r.err, Nil, -1, "none")
         /\ opState' = [opState EXCEPT !.loads = @ + 1, !.rows = r.rows,
                                       !.insertErrs = r.insertErrs]
         /\ inserts' = inserts + stored
         /\ inserted' = inserted (+) BagOfSeq(r.stored)
         /\ quiet' = (quiet /\ stored = 0)
         /\ out' = IF stored = 0 THEN out ELSE <<>>
  /\ UNCHANGED <<h, rt, PageNum, deleted, child, calls, insertLog, emitted,
                 seen>>

InitLoad ==
  InitCommon /\ child = <<>> /\ opState = NewLoad /\ PageNum \in 1..MaxPageNum

\* A client that inserts into the heap file directly and loads CSV files
\* into it.
NextLoad ==
  \/ \E v \in Values : InsertTuple(Tuple(FileDesc, <<v>>, Nil))
  \/ LoadCSV

SpecLoad == InitLoad /\ [][NextLoad]_vars

\* ------------------------------------------------------------ constructors
\* Argument lists of the constructors: field expressions (by field number),
\* output names, ascending flags.
ExprLists == UNION {[1..n -> 1..2] : n \in 0..MaxExprs}

NameLists == UNION {[1..n -> FieldNames] : n \in 0..MaxExprs}

FlagLists == UNION {[1..n -> BOOLEAN] : n \in 0..MaxExprs}

NewProjectOp_mutNoCheck(selectFields, outputNames, distinct) ==
  [op |-> <<[kind |-> "Project", selectFields |-> selectFields,
             outputNames |-> outputNames, distinct |-> distinct]>>,
   err |-> "nil"]

\* NewProjectOp(selectFields, outputNames, distinct, child): the operator
\* (Nil for a nil Operator) and the error.
NewProjectOp(selectFields, outputNames, distinct) ==
  IF Len(selectFields) # Len(outputNames)
  THEN [op |-> Nil, err |-> "IllegalOperationError"]
  ELSE [op |-> <<[kind |-> "Project", selectFields |-> selectFields,
                  outputNames |-> outputNames, distinct |-> distinct]>>,
        err |-> "nil"]

\* NewOrderBy(orderByFields, child, ascending).
NewOrderBy(orderByFields, ascending) ==
  IF Len(orderByFields) # Len(ascending)
  THEN [op |-> Nil, err |-> "IllegalOperationError"]
  ELSE [op |-> <<[kind |-> "OrderBy", orderBy |-> orderByFields,
                  ascending |-> ascending]>>,
        err |-> "nil"]

\* No constructor called yet; afterwards the last call, its arguments and
\* its results.
NoCall ==
  [kind |-> "constructors", called |-> "none", exprs |-> <<>>,
   names |-> <<>>, flags |-> <<>>, op |-> Nil, err |-> "nil"]

NewProjectOpCall ==
  /\ opState.kind = "constructors"
  /\ \E selectFields \in ExprLists, outputNames \in NameLists,
        distinct \in BOOLEAN :
       LET r == NewProjectOp(selectFields, outputNames, distinct) IN
         /\ opState' = [NoCall EXCEPT !.called = "NewProjectOp",
                                      !.exprs = selectFields,
                                      !.names = outputNames,
                                      !.flags = <<distinct>>,
                                      !.op = r.op, !.err = r.err]
         /\ ret' = Ret("NewProjectOp", r.err, Nil, -1, "none")
  /\ UNCHANGED <<fileVars, child, calls, insertLog, emitted, seen>>

NewOrderByCall ==
  /\ opState.kind = "constructors"
  /\ \E orderByFields \in ExprLists, ascending \in FlagLists :
       LET r == NewOrderBy(orderByFields, ascending) IN
         /\ opState' = [NoCall EXCEPT !.called = "NewOrderBy",
                                      !.exprs = orderByFields,
                                      !.flags = ascending,
                                      !.op = r.op, !.err = r.err]
         /\ ret' = Ret("NewOrderBy", r.err, Nil, -1, "none")
  /\ UNCHANGED <<fileVars, child, calls, insertLog, emitted, seen>>

InitNew ==
  /\ InitCommon /\ PageNum = 1
  /\ child = <<>>
  /\ opState = NoCall

NextNew == NewProjectOpCall \/ NewOrderByCall

SpecNew == InitNew /\ [][NextNew]_vars

\* ------------------------------------------------------------------ Filter
\* The streams of the children of Filter and Project: tuples of one and of
\* two int fields, a tuple without fields, an error.
ExprItems == LeftItems \cup RightItems

\* f.Iterator(tid) of NewFilter(constExpr, op, field, child): left is
\* field, right is constExpr; pos is the position of childIter.
NewFilterIterator(left, op, right) ==
  [kind |-> "Filter", op |-> op, left |-> left, right |-> right,
   pos |-> 0, replies |-> <<>>]

RECURSIVE Filter_iterFunc_mutSkipFailed(_, _, _)
Filter_iterFunc_mutSkipFailed(st, stream, errs) ==
  LET item == childIter(stream, st.pos)
      next == [st EXCEPT !.pos = @ + 1]
  IN
  IF item.err # "nil"
  THEN [st |-> next, reply |-> [tuple |-> Nil, err |-> item.err],
        seen |-> Append(errs, item.err)]
  ELSE IF item.tuple = Nil
  THEN [st |-> st, reply |-> EndOfStream, seen |-> errs]
  ELSE LET leftVal == EvalExpr(st.left, item.tuple[1])
           rightVal == EvalExpr(st.right, item.tuple[1])
       IN IF leftVal.err # "nil"
          THEN Filter_iterFunc_mutSkipFailed(next, stream,
                                             Append(errs, leftVal.err))
          ELSE IF rightVal.err # "nil"
          THEN [st |-> next, reply |-> [tuple |-> Nil, err |-> rightVal.err],
                seen |-> Append(errs, rightVal.err)]
          ELSE IF ~EvalPred(leftVal.val, rightVal.val, st.op)
          THEN Filter_iterFunc_mutSkipFailed(next, stream, errs)
          ELSE [st |-> next, reply |-> [tuple |-> item.tuple, err |-> "nil"],
                seen |-> errs]

\* One call of the function Filter.Iterator returned, on closure state st
\* over the child stream, errs being the errors seen so far in the call:
\* the new closure state, the reply, and the errors the child's next and
\* the expressions returned.
RECURSIVE Filter_iterFunc(_, _, _)
Filter_iterFunc(st, stream, errs) ==
  LET item == childIter(stream, st.pos)
      next == [st EXCEPT !.pos = @ + 1]
  IN
  IF item.err # "nil"
  THEN [st |-> next, reply |-> [tuple |-> Nil, err |-> item.err],
        seen |-> Append(errs, item.err)]
  ELSE IF item.tuple = Nil
  THEN [st |-> st, reply |-> EndOfStream, seen |-> errs]
  ELSE LET leftVal == EvalExpr(st.left, item.tuple[1])
           rightVal == EvalExpr(st.right, item.tuple[1])
       IN IF leftVal.err # "nil"
          THEN [st |-> next, reply |-> [tuple |-> Nil, err |-> leftVal.err],
                seen |-> Append(errs, leftVal.err)]
          ELSE IF rightVal.err # "nil"
          THEN [st |-> next, reply |-> [tuple |-> Nil, err |-> rightVal.err],
                seen |-> Append(errs, rightVal.err)]
          ELSE IF ~EvalPred(leftVal.val, rightVal.val, st.op)
          THEN Filter_iterFunc(next, stream, errs)
          ELSE [st |-> next, reply |-> [tuple |-> item.tuple, err |-> "nil"],
                seen |-> errs]

FilterNext ==
  /\ opState.kind = "Filter"
  /\ Len(opState.replies) < MaxOpCalls
  /\ LET r == Filter_iterFunc(opState, child, <<>>) IN
       /\ opState' = [r.st EXCEPT !.replies = Append(@, r.reply)]
       /\ ret' = Ret("Filter", r.reply.err, r.reply.tuple, -1, "none")
       /\ seen' = r.seen
  /\ UNCHANGED <<fileVars, child, calls, insertLog, emitted>>

InitFilter ==
  /\ InitCommon /\ PageNum = 1
  /\ child \in StreamsOf(ExprItems)
  /\ \E left \in 1..2, right \in 1..2, op \in {"OpEq", "OpLt"} :
       opState = NewFilterIterator(left, op, right)

\* ----------------------------------------------------------------- Project
\* Tuple.tupleKey(): a key that is equal for tuples with equal fields.
tupleKey(t) == t.Fields

\* p.Iterator(tid) of the operator p that NewProjectOp returned: desc is
\* p.Descriptor(), allMap the distinct keys seen, pos the position of
\* childIter.
NewProjectIterator(p) ==
  [kind |-> "Project", selectFields |-> p.selectFields,
   outputNames |-> p.outputNames, distinct |-> p.distinct,
   desc |-> [i \in DOMAIN p.selectFields |-> "int"],
   allMap |-> {}, pos |-> 0, replies |-> <<>>]

\* One call of the function Project.Iterator returned.
RECURSIVE Project_iterFunc(_, _)
Project_iterFunc(st, stream) ==
  LET item == childIter(stream, st.pos)
      next == [st EXCEPT !.pos = @ + 1]
  IN
  IF item.err # "nil"
  THEN [st |-> next, reply |-> [tuple |-> Nil, err |-> item.err],
        seen |-> <<item.err>>]
  ELSE IF item.tuple = Nil
  THEN [st |-> st, reply |-> EndOfStream, seen |-> <<>>]
  ELSE LET tmpVal == [k \in DOMAIN st.selectFields |->
                        EvalExpr(st.selectFields[k], item.tuple[1])]
           failed == {k \in DOMAIN tmpVal : tmpVal[k].err # "nil"}
           first == CHOOSE k \in failed : \A j \in failed : k <= j
           newTup == Tuple(st.desc, [k \in DOMAIN tmpVal |-> tmpVal[k].val],
                           Nil)
       IN IF failed # {}
          THEN [st |-> next,
                reply |-> [tuple |-> Nil, err |-> tmpVal[first].err],
                seen |-> <<tmpVal[first].err>>]
          ELSE IF ~st.distinct
          THEN [st |-> next, reply |-> [tuple |-> <<newTup>>, err |-> "nil"],
                seen |-> <<>>]
          ELSE IF tupleKey(newTup) \in st.allMap
          THEN Project_iterFunc(next, stream)
          ELSE [st |-> [next EXCEPT !.allMap = @ \cup {tupleKey(newTup)}],
                reply |-> [tuple |-> <<newTup>>, err |-> "nil"],
                seen |-> <<>>]

ProjectNext ==
  /\ opState.kind = "Project"
  /\ Len(opState.replies) < MaxOpCalls
  /\ LET r == Project_iterFunc(opState, child) IN
       /\ opState' = [r.st EXCEPT !.replies = Append(@, r.reply)]
       /\ ret' = Ret("Project", r.reply.err, r.reply.tuple, -1, "none")
       /\ seen' = r.seen
  /\ UNCHANGED <<fileVars, child, calls, insertLog, emitted>>

InitProject ==
  /\ InitCommon /\ PageNum = 1
  /\ child \in StreamsOf(ExprItems)
  /\ \E selectFields \in ExprLists, distinct \in BOOLEAN :
       opState = NewProjectIterator(
                   NewProjectOp(selectFields,
                                [k \in DOMAIN selectFields |-> "a"],
                                distinct).op[1])

\* --------------------------------------------------- the operators' errors
\* Each of Filter, Project, LimitOp, EqualityJoin, InsertOp and DeleteOp
\* on its own, driven by the clients of its specification.
InitErr ==
  \/ InitOp
  \/ InitDel
  \/ InitLimit
  \/ InitJoin
  \/ InitFilter
  \/ InitProject

NextErr ==
  \/ opState.kind = "none" /\ NextOp
  \/ opState.kind = "DeleteOp" /\ NextDel
  \/ LimitOpNext
  \/ JoinNext
  \/ FilterNext
  \/ ProjectNext

SpecErr == InitErr /\ [][NextErr]_vars

\* ------------------------------------------------------------- claims
Occupied(p) == {i \in 0..(Len(p.tuples) - 1) : p.tuples[i + 1] # Nil}

\* The Fields in the occupied slots of p, in ascending slot order.
OccupiedFields(p) ==
  LET occ == SelectSeq(p.tuples, LAMBDA x : x # Nil)
  IN [i \in 1..Len(occ) |-> occ[i][1].Fields]

\* C1: after any sequence of insertTuple and deleteTuple calls on a heap
\* page, failing ones included, slotUsed is the number of non-empty slots and
\* lies between 0 and slotCount.
C1_SlotUsedCountsOccupied ==
  /\ h.slotUsed = Cardinality(Occupied(h))
  /\ 0 <= h.slotUsed
  /\ h.slotUsed <= h.slotCount

\* C1 witness: a deleteTuple has just failed on a page that holds tuples and
\* has a hole below one of them.
C1_Witness ==
  /\ ret.op = "heapPage.deleteTuple"
  /\ ret.err = "TupleNotFoundError"
  /\ h.tuples[1] = Nil
  /\ h.tuples[2] # Nil

\* C4: the page read back from p's buffer has p's slotCount and slotUsed, its
\* occupied slots are exactly 0..slotUsed-1, and they hold p's occupied
\* Fields in ascending order of p's slot numbers, each with rid (pageNo, new
\* slot index).
C4_RoundTrip ==
  rt # Nil =>
    LET q == rt[1] IN
    /\ q.slotCount = h.slotCount
    /\ q.slotUsed = h.slotUsed
    /\ Len(q.tuples) = q.slotCount
    /\ Occupied(q) = 0..(q.slotUsed - 1)
    /\ OccupiedFields(q) = OccupiedFields(h)
    /\ \A i \in Occupied(q) : q.tuples[i + 1][1].Rid = <<h.pageNo, i>>

\* C4 witness: a page with an empty slot below two occupied ones has been
\* written and read back, so the tuples have moved to lower slots.
C4_Witness ==
  /\ rt # Nil
  /\ h.tuples[1] = Nil
  /\ h.tuples[2] # Nil
  /\ h.tuples[3] # Nil
  /\ h.tuples[2][1].Fields # h.tuples[3][1].Fields

\* The page GetPage hands out for page number p: the resident object, or
\* the page read from the file.
PageOf(p) == IF p \in DOMAIN Pages THEN Pages[p] ELSE readPage(file, p).page[1]

\* The Fields the heap file holds, page by page and slot by slot.
RECURSIVE FieldsFrom(_)
FieldsFrom(p) ==
  IF p >= pageCount THEN <<>> ELSE OccupiedFields(PageOf(p)) \o FieldsFrom(p + 1)

FileFields == FieldsFrom(0)

FieldsOf(tuples) == [i \in DOMAIN tuples |-> tuples[i].Fields]

IsPrefix(a, b) == Len(a) <= Len(b) /\ \A i \in 1..Len(a) : a[i] = b[i]

RidLess(a, b) == a[1] < b[1] \/ (a[1] = b[1] /\ a[2] < b[2])

\* The iterator has just returned no tuple, in a scan with no interleaved
\* insertTuple or deleteTuple.
ScanEnded == iterIndex >= 0 /\ quiet /\ ret.op = "next" /\ ret.tuple = Nil

\* C2 as stated: after successful insertTuple calls only, a full iteration
\* yields exactly the bag of inserted values, whatever the pool's capacity.
C2_ScanYieldsInserted ==
  (ScanEnded /\ ~deleted) =>
    (ret.err = "nil" /\ BagOfSeq(FieldsOf(out)) = inserted)

\* C2 amended: after successful insertTuple calls only, a full iteration that
\* reaches end-of-stream without an error has yielded exactly the bag of
\* inserted values: none lost, none duplicated.  An iteration that stops
\* with an error stops with BufferFullError, and has yielded no value more
\* often than it was inserted.
C2_ScanYieldsInsertedUnlessError ==
  (ScanEnded /\ ~deleted) =>
    IF ret.err = "nil"
    THEN BagOfSeq(FieldsOf(out)) = inserted
    ELSE /\ ret.err = "BufferFullError"
         /\ BagOfSeq(FieldsOf(out)) \sqsubseteq inserted

\* C2 witness: a pool of one page, four inserts over two pages (hint path
\* and new-page path), and a full scan that reached end-of-stream.
C2_Witness ==
  /\ ScanEnded /\ ~deleted /\ ret.err = "nil"
  /\ PageNum = 1
  /\ pageCount = 2
  /\ Len(out) = 4
  /\ \E i, j \in 1..4 : out[i].Fields # out[j].Fields

\* C3: a successful deleteTuple of the tuple the iterator has just returned
\* removes exactly that tuple: the file's bag of values loses one occurrence
\* of its value and nothing else.
C3_DeleteRemovesScanned ==
  [][(/\ ret.op = "next" /\ ret.tuple # Nil
      /\ ret'.op = "deleteTuple" /\ ret'.err = "nil"
      /\ ret'.tuple = ret.tuple)
     => (/\ BagIn(ret.tuple[1].Fields, BagOfSeq(FileFields))
         /\ BagOfSeq(FileFields)' =
              BagOfSeq(FileFields) (-) SetToBag({ret.tuple[1].Fields}))]_vars

\* C8: a scan with no interleaved modifications yields tuples in strictly
\* ascending (page number, slot number) order, and what it yields is the
\* file's occupied slots page by page and slot by slot: a prefix of them
\* while it runs, all of them at end-of-stream.
C8_ScanOrder ==
  (iterIndex >= 0 /\ quiet) =>
    /\ \A i \in 1..(Len(out) - 1) : RidLess(out[i].Rid, out[i + 1].Rid)
    /\ IsPrefix(FieldsOf(out), FileFields)
    /\ (ScanEnded /\ ret.err = "nil") => FieldsOf(out) = FileFields

\* C8 witness: a finished scan over two pages that skipped an empty slot
\* lying below an occupied one.
C8_Witness ==
  /\ ScanEnded /\ ret.err = "nil"
  /\ pageCount = 2
  /\ Len(out) >= 3
  /\ out[1].Rid = <<0, 1>>
  /\ out[Len(out)].Rid[1] = 1

\* The step is a successful deleteTuple by the record id of slot s of page p.
DeletesSlot(p, s) ==
  /\ ret'.op = "deleteTuple" /\ ret'.err = "nil"
  /\ ret'.tuple[1].Rid = getRecordID(p, s)

\* C5: while a page stays resident, every live tuple stays in its slot of
\* the in-memory array, with its record id, across insertTuple, deleteTuple
\* of other tuples, GetPage, FlushAllPages and flushPage; a successful
\* deleteTuple by a record id empties exactly the slot the id names.
C5_RidStableWhileResident ==
  [][\A p \in (DOMAIN Pages \cap DOMAIN Pages') \ evicted' :
       \A i \in DOMAIN Pages[p].tuples :
         Pages[p].tuples[i] # Nil =>
           IF DeletesSlot(p, i - 1)
           THEN Pages'[p].tuples[i] = Nil
           ELSE Pages'[p].tuples[i] = Pages[p].tuples[i]]_vars

\* C5 witness: flushPage has just written a resident page with an empty
\* slot below a live tuple; the disk image is compacted, the live tuple is
\* still in its slot.
C5_Witness ==
  /\ ret.op = "flushPage"
  /\ \E p \in DOMAIN Pages :
       /\ Pages[p].tuples[1] = Nil
       /\ Pages[p].tuples[2] # Nil
       /\ Pages[p].tuples[2][1].Rid = getRecordID(p, 1)
       /\ ~Pages[p].dirty
       /\ file[p + 1].tups[1] = Pages[p].tuples[2][1].Fields

\* A GetPage call that misses while the pool is full of dirty pages.
MissAllDirty(pageNo) ==
  /\ pageNo \notin DOMAIN Pages
  /\ readPage(file, pageNo).err = "nil"
  /\ Cardinality(DOMAIN Pages) >= PageNum
  /\ \A q \in DOMAIN Pages : Pages[q].dirty

\* C6: a dirty page is never dropped from the pool: it is still resident
\* after every operation, and any page that is dropped has its contents on
\* disk; a GetPage that misses while every resident page is dirty returns
\* BufferFullError and leaves the pool and the file as they were.
C6_DirtyNeverEvicted ==
  [][/\ \A p \in DOMAIN Pages :
          Pages[p].dirty => (p \in DOMAIN Pages' /\ p \notin evicted')
     /\ \A p \in evicted' \cap DOMAIN Pages :
          file'[p + 1] = toBuffer(Pages[p])
     /\ (ret'.op = "GetPage" /\ MissAllDirty(ret'.pageNo)) =>
          (ret'.err = "BufferFullError" /\ Pages' = Pages /\ file' = file)]_vars

\* C6 witness: GetPage has just returned BufferFullError with every
\* resident page dirty.
C6_Witness ==
  /\ ret.op = "GetPage" /\ ret.err = "BufferFullError"
  /\ Cardinality(DOMAIN Pages) = PageNum
  /\ \A q \in DOMAIN Pages : Pages[q].dirty

\* C7: after a successful insertTuple or deleteTuple the page that received
\* or lost the tuple is marked dirty, on the hint path and on the new-page
\* path.
C7_ModifiedPageDirty ==
  [][(ret'.op \in {"insertTuple", "deleteTuple"} /\ ret'.err = "nil") =>
       (ret'.pageNo \in DOMAIN Pages' /\ Pages'[ret'.pageNo].dirty)]_vars

\* The tuples of a child stream up to its first error.
RECURSIVE ChildTuples(_)
ChildTuples(items) ==
  IF items = <<>> \/ items[1].err # "nil" THEN <<>>
  ELSE <<items[1].tuple[1]>> \o ChildTuples(Tail(items))

\* The first call of the InsertOp iterator has just returned.
FirstCallDone == calls = 1 /\ ret.op = "InsertOp"

C10_EmitsOnce ==
  [][(emitted >= 1 /\ ret'.op = "InsertOp" /\ calls' = calls + 1) =>
       (ret'.tuple = Nil /\ ret'.err = "nil" /\ insertLog' = insertLog)]_vars

\* The step is a call of the DeleteOp iterator.
DeleteOpCalled == ret'.op = "DeleteOp" /\ opState'.calls = opState.calls + 1

\* C11: the DeleteOp iterator emits one tuple: once a call has returned the
\* count tuple, every later call returns no tuple and no error, does not
\* open the child again and calls deleteTuple no more.
C11_DeleteOpEmitsOnce ==
  [][(opState.kind = "DeleteOp" /\ opState.emitted >= 1 /\ DeleteOpCalled) =>
       /\ ret'.tuple = Nil /\ ret'.err = "nil"
       /\ opState'.opened = opState.opened
       /\ opState'.log = opState.log]_vars

\* The step is the first call of the iterator of a DeleteOp run on a file
\* that has only been inserted into.
FirstDeleteOpCall ==
  opState.kind = "DeleteOp" /\ opState.calls = 0 /\ DeleteOpCalled /\ ~deleted

\* A scan made after a DeleteOp call that returned its count has ended.
ScanAfterDeleteOp ==
  opState.kind = "DeleteOp" /\ opState.calls = 1 /\ opState.emitted = 1
    /\ ScanEnded

\* C12 as stated: after N tuples were inserted into an empty heap file, the
\* DeleteOp over a scan of the file deletes every tuple while scanning: it
\* returns count = N, it passed each tuple of the file to deleteTuple once,
\* in scan order, and a later iteration yields no tuple.
C12_DeleteAll ==
  /\ [][FirstDeleteOpCall =>
          /\ ret'.err = "nil"
          /\ ret'.tuple = <<Tuple(DeleteOp_Descriptor, <<inserts>>, Nil)>>
          /\ FieldsOf(opState'.log) = FileFields
          /\ FileFields' = <<>>]_vars
  /\ [](ScanAfterDeleteOp => (ret.err = "nil" /\ out = <<>>))

\* C12 amended: the DeleteOp either deletes every tuple (count = N, each
\* tuple passed to deleteTuple once in scan order, a later iteration yields
\* no tuple), or, when the pool cannot admit the next page of the scan
\* because every resident page is dirty, returns BufferFullError and no
\* count, having deleted exactly the tuples scanned before that page.
C12_DeleteAllOrBufferFull ==
  /\ [][FirstDeleteOpCall =>
          /\ Len(FileFields) = inserts
          /\ IsPrefix(FieldsOf(opState'.log), FileFields)
          /\ FieldsOf(opState'.log) \o FileFields' = FileFields
          /\ IF ret'.err = "nil"
             THEN /\ ret'.tuple = <<Tuple(DeleteOp_Descriptor, <<inserts>>, Nil)>>
                  /\ FileFields' = <<>>
             ELSE /\ ret'.err = "BufferFullError"
                  /\ ret'.tuple = Nil
                  /\ Cardinality(DOMAIN Pages') = PageNum
                  /\ \A q \in DOMAIN Pages' : Pages'[q].dirty]_vars
  /\ [](ScanAfterDeleteOp => (ret.err = "nil" /\ out = <<>>))

\* C12 witness: four tuples on two pages were deleted by one DeleteOp call
\* that returned the count 4, and a scan made afterwards has ended.
C12_Witness ==
  /\ ScanAfterDeleteOp
  /\ pageCount = 2
  /\ Len(opState.log) = 4
  /\ \E i, j \in 1..4 : opState.log[i].Fields # opState.log[j].Fields
  /\ emitted >= 1

Min(a, b) == IF a < b THEN a ELSE b

\* The child stream returns no error.
ErrorFree(stream) == \A i \in DOMAIN stream : stream[i].err = "nil"

\* C13: over a child producing the tuples c and no error, a LimitOp with limit k returns
\* the first min(k, |c|) tuples of c, in child order, in its first calls and
\* (nil, nil) in every later call; with k <= 0 every call returns (nil, nil).
C13_LimitEmitsFirstK ==
  (opState.kind = "LimitOp" /\ ErrorFree(child)) =>
    \A i \in DOMAIN opState.replies :
      IF i <= Min(opState.limit, Len(child))
      THEN opState.replies[i] = child[i]
      ELSE opState.replies[i] = EndOfStream

\* C13 witness: limit 1 over a child of two different tuples: the first
\* call returned the first tuple, the two calls after it end-of-stream.
C13_Witness ==
  /\ opState.kind = "LimitOp" /\ opState.limit = 1
  /\ ErrorFree(child) /\ Len(child) = 2 /\ child[1] # child[2]
  /\ opState.replies = <<child[1], EndOfStream, EndOfStream>>

\* The tuples among the replies of an operator's iterator, in order.
TuplesOf(replies) ==
  LET some == SelectSeq(replies, LAMBDA r : r.tuple # Nil) IN
  [i \in DOMAIN some |-> some[i].tuple[1]]

\* The operator's iterator has returned (nil, nil).
Ended(replies) == \E i \in DOMAIN replies : replies[i] = EndOfStream

\* The stream returns no error and only tuples the key expression
\* evaluates on.
Evaluable(stream) ==
  \A i \in DOMAIN stream :
    stream[i].err = "nil" /\ EvalExpr(1, stream[i].tuple[1]).err = "nil"

\* The pairs of positions (left, right) whose keys are equal.
MatchingPairs(left, right) ==
  {p \in (DOMAIN left) \X (DOMAIN right) :
     EvalExpr(1, left[p[1]].tuple[1]).val = EvalExpr(1, right[p[2]].tuple[1]).val}

\* The bag of joined tuples of the reference join: one per matching pair.
ReferenceJoin(left, right) ==
  LET P == MatchingPairs(left, right)
      J(p) == joinTuples(left[p[1]].tuple[1], right[p[2]].tuple[1])
  IN [x \in {J(p) : p \in P} |-> Cardinality({p \in P : J(p) = x})]

\* C14: over finite left and right inputs and maxBufferSize >= 1 (smaller
\* than, equal to, larger than the left input) the join emits one joined
\* tuple (left fields, then right fields) per pair of a left and a right
\* tuple with equal keys, so |left[v]| x |right[v]| per key v, and no tuple
\* whose keys differ: nothing is emitted twice, and at end-of-stream nothing
\* is missing; after end-of-stream it emits nothing.
C14_JoinEmitsMatchingPairs ==
  (opState.kind = "Join" /\ Evaluable(opState.left) /\ Evaluable(opState.right))
  => LET replies == opState.replies
         got == TuplesOf(replies)
         want == ReferenceJoin(opState.left, opState.right)
     IN /\ \A i \in DOMAIN replies : replies[i].err = "nil"
        /\ \A i \in DOMAIN got : got[i].Fields[1] = got[i].Fields[2]
        /\ BagOfSeq(got) \sqsubseteq want
        /\ Ended(replies) => BagOfSeq(got) = want
        /\ \A i, j \in DOMAIN replies :
             (i < j /\ replies[i] = EndOfStream) => replies[j] = EndOfStream

\* C14 witness: two left and two right tuples of one key joined with a
\* buffer of one tuple: four joined tuples, then end-of-stream.
C14_Witness ==
  /\ opState.kind = "Join" /\ opState.maxBufferSize = 1
  /\ Evaluable(opState.left) /\ Evaluable(opState.right)
  /\ Len(opState.left) = 2 /\ Len(opState.right) = 2
  /\ Cardinality(MatchingPairs(opState.left, opState.right)) = 4
  /\ Len(TuplesOf(opState.replies)) = 4
  /\ Len(opState.replies) = 5 /\ opState.replies[5] = EndOfStream

\* The tuples of a stream that returns no error.
StreamTuples(stream) == [i \in DOMAIN stream |-> stream[i].tuple[1]]

\* The lexicographic comparator over the key list: a may come before b when
\* they agree on every key, or at the first key where they differ a is
\* smaller and the key ascending, or larger and the key descending.
InSortOrder(orderBy, ascending, a, b) ==
  LET differ == {k \in DOMAIN orderBy :
                   EvalExpr(orderBy[k], a).val # EvalExpr(orderBy[k], b).val}
  IN differ # {} =>
       LET k == CHOOSE x \in differ : \A y \in differ : x <= y IN
       IF ascending[k]
       THEN EvalExpr(orderBy[k], a).val < EvalExpr(orderBy[k], b).val
       ELSE EvalExpr(orderBy[k], a).val > EvalExpr(orderBy[k], b).val

\* a and b compare equal on every sort key.
SameKeys(orderBy, a, b) ==
  \A k \in DOMAIN orderBy :
    EvalExpr(orderBy[k], a).val = EvalExpr(orderBy[k], b).val

\* C15: OrderBy emits a rearrangement of its child's tuples (none twice,
\* none missing at end-of-stream) in which adjacent outputs are in the order
\* of the lexicographic comparator over the key list.
C15_OrderBySorted ==
  (opState.kind = "OrderBy" /\ Sortable(StreamTuples(child), opState.orderBy))
  => LET got == TuplesOf(opState.replies) IN
     /\ BagOfSeq(got) \sqsubseteq BagOfSeq(StreamTuples(child))
     /\ Ended(opState.replies) => BagOfSeq(got) = BagOfSeq(StreamTuples(child))
     /\ \A i \in 1..(Len(got) - 1) :
          InSortOrder(opState.orderBy, opState.ascending, got[i], got[i + 1])

\* C15 witness: three tuples sorted on (field 1 ascending, field 2
\* descending) came out in another order than the child produced them.
C15_Witness ==
  /\ opState.kind = "OrderBy"
  /\ opState.orderBy = <<1, 2>> /\ opState.ascending = <<TRUE, FALSE>>
  /\ Ended(opState.replies)
  /\ StreamTuples(child)
       = <<Tuple(OtherDesc, <<2, 1>>, Nil), Tuple(OtherDesc, <<1, 1>>, Nil),
           Tuple(OtherDesc, <<1, 2>>, Nil)>>
  /\ [i \in 1..3 |-> TuplesOf(opState.replies)[i].Fields]
       = <<(<<1, 2>>), (<<1, 1>>), (<<2, 1>>)>>

\* C16: OrderBy is stable: the output tuples that compare equal on every
\* sort key come in the order in which the child produced them.
C16_OrderByStable ==
  (opState.kind = "OrderBy" /\ Sortable(StreamTuples(child), opState.orderBy)
     /\ Ended(opState.replies))
  => LET got == TuplesOf(opState.replies) IN
     \A i \in DOMAIN got :
       SelectSeq(got, LAMBDA t : SameKeys(opState.orderBy, t, got[i]))
         = SelectSeq(StreamTuples(child),
                     LAMBDA t : SameKeys(opState.orderBy, t, got[i]))

RECURSIVE SumOf(_)
SumOf(seq) == IF seq = <<>> THEN 0 ELSE Head(seq) + SumOf(Tail(seq))

\* C17: for every non-empty stream of integer values, negative sums
\* included, Finalize of the Avg state returns floor(sum / n), n being the
\* number of integer values added.
C17_AvgIsFloor ==
  (ret.op = "AvgAggState.Finalize" /\ opState.values # <<>>)
    => /\ ret.err = "nil"
       /\ ret.tuple # Nil
       /\ ret.tuple[1].Fields[1]
            = SumOf(opState.values) \div Len(opState.values)

\* C18: computeFieldSum returns a non-nil error when the CSV file does not
\* exist or cannot be opened, when the named field is not in the
\* descriptor, and when the named field is not of integer type.
C18_ComputeFieldSumErrors ==
  opState.done =>
    ((\/ opState.csv = Nil
      \/ \A i \in DOMAIN opState.td : opState.td[i].Fname # opState.sumField
      \/ \E i \in DOMAIN opState.td :
           /\ opState.td[i].Fname = opState.sumField
           /\ opState.td[i].Ftype # "int")
       => opState.err # "nil")

\* C19: NewProjectOp returns IllegalOperationError and no operator when the
\* number of select expressions differs from the number of output names,
\* NewOrderBy does so when the number of sort expressions differs from the
\* number of ascending flags, and with equal lengths both return an operator
\* and no error.
C19_ConstructorsValidateArity ==
  /\ opState.called = "NewProjectOp" =>
       IF Len(opState.exprs) # Len(opState.names)
       THEN opState.err = "IllegalOperationError" /\ opState.op = Nil
       ELSE /\ opState.err = "nil"
            /\ opState.op # Nil
            /\ opState.op[1].selectFields = opState.exprs
            /\ opState.op[1].outputNames = opState.names
  /\ opState.called = "NewOrderBy" =>
       IF Len(opState.exprs) # Len(opState.flags)
       THEN opState.err = "IllegalOperationError" /\ opState.op = Nil
       ELSE /\ opState.err = "nil"
            /\ opState.op # Nil
            /\ opState.op[1].orderBy = opState.exprs
            /\ opState.op[1].ascending = opState.flags

\* C19 witness: NewProjectOp was called with two expressions and one output
\* name and returned no operator.
C19_Witness ==
  /\ opState.kind = "constructors"
  /\ opState.called = "NewProjectOp"
  /\ Len(opState.exprs) = 2
  /\ Len(opState.names) = 1
  /\ opState.op = Nil
  /\ opState.err = "IllegalOperationError"

\* The operators C20 names, as ret.op records them.
Propagating == {"Filter", "Project", "LimitOp", "Join", "InsertOp", "DeleteOp"}

\* C20: for Filter, Project, LimitOp, EqualityJoin, InsertOp and DeleteOp,
\* when the child's next function or an expression evaluation returns an
\* error during a call of the operator's next function, that call returns
\* that very error and no tuple.
C20_ErrorsBubbleUp ==
  (ret.op \in Propagating /\ seen # <<>>)
    => /\ Len(seen) = 1
       /\ ret.err = seen[1]
       /\ ret.tuple = Nil

\* C20 witness: a Filter iterator returned a tuple, and on its next call an
\* expression failed on the child's tuple and the call returned that error.
C20_Witness ==
  /\ ret.op = "Filter"
  /\ Len(opState.replies) = 2
  /\ opState.replies[1].tuple # Nil
  /\ seen = <<"FieldNotFoundError">>
  /\ ret.err = "FieldNotFoundError"
  /\ ret.tuple = Nil

\* C21: when a sort-key expression fails on some tuple of the child (the
\* child has two tuples or more, so that the sort compares them), OrderBy
\* returns that error from one of its calls; it never runs to end-of-stream
\* with every call returning a nil error.
C21_OrderBySurfacesEvalError ==
  (/\ opState.kind = "OrderBy"
   /\ Len(child) >= 2
   /\ ~Sortable(StreamTuples(child), opState.orderBy))
    => ~(/\ Ended(opState.replies)
         /\ \A i \in DOMAIN opState.replies : opState.replies[i].err = "nil")

\* C22: when insertTuple returns an error for some row, LoadFromCSV returns
\* an error; it does not return success with that row missing.
C22_LoadSurfacesInsertError ==
  (ret.op = "LoadFromCSV" /\ opState.insertErrs # <<>>) => ret.err # "nil"

\* C23: whatever insertTuple and flushPage calls have been made on the heap
\* file, every page buffer written is PageSize bytes long, the backing file
\* is pageCount * PageSize bytes long, and NumPages() equals pageCount.
C23_FileLengthIsPageCount ==
  /\ \A i \in DOMAIN file : bufLen(file[i]) = PageSize
  /\ fileSize(file) = pageCount * PageSize
  /\ NumPages(file) = pageCount

\* C23 witness: the file has two pages, and the second, holding fewer
\* tuples than it has slots, has just been flushed.
C23_Witness ==
  /\ ret.op = "flushPage"
  /\ pageCount = 2
  /\ Len(file) = 2
  /\ file[2].slotUsed < file[2].slotCount
  /\ file[2].padding > 0

\* The slots of page p that hold no tuple.
EmptySlots(p) == {i \in 0..(Len(p.tuples) - 1) : p.tuples[i + 1] = Nil}

\* C24: heapPage.insertTuple succeeds exactly when the page has an empty
\* slot; it then stores the tuple in the lowest empty slot with the rid
\* (pageNo, slot), which it also gives to the caller's tuple, adds one to
\* slotUsed and marks the page dirty, leaving the other slots alone.  With
\* no empty slot it returns PageFullError and leaves the page unchanged.
C24_PageInsert ==
  [][ret'.op = "heapPage.insertTuple" =>
       IF EmptySlots(h) = {}
       THEN ret'.err = "PageFullError" /\ ret'.tuple = Nil /\ h' = h
       ELSE LET slot == CHOOSE i \in EmptySlots(h) :
                          \A j \in EmptySlots(h) : i <= j
            IN /\ ret'.err = "nil"
               /\ ret'.tuple # Nil
               /\ ret'.tuple[1].Rid = getRecordID(h.pageNo, slot)
               /\ h' = [h EXCEPT
                          !.tuples[slot + 1] =
                             <<Tuple(h.desc, ret'.tuple[1].Fields,
                                     getRecordID(h.pageNo, slot))>>,
                          !.slotUsed = @ + 1,
                          !.dirty = TRUE]]_vars

\* C24 witness: the last insertTuple took slot 0 while slot 1 was occupied,
\* that is, it reused a slot freed by a deleteTuple.
C24_Witness ==
  /\ ret.op = "heapPage.insertTuple"
  /\ ret.err = "nil"
  /\ ret.tuple[1].Rid = getRecordID(0, 0)
  /\ h.tuples[2] # Nil
  /\ h.tuples[3] = Nil

\* C25: heapPage.deleteTuple returns TupleNotFoundError and leaves the
\* slots, slotUsed and the dirty flag unchanged when the rid's slot is
\* negative, at or past slotCount, or empty; on an occupied slot it
\* succeeds; and a second deleteTuple of a rid just deleted fails.
C25_PageDelete ==
  [][ret'.op = "heapPage.deleteTuple" =>
       LET slot == splitRecordID(ret'.tuple[1].Rid)[2] IN
       /\ (slot < 0 \/ slot >= h.slotCount \/ slot \in EmptySlots(h))
            => (ret'.err = "TupleNotFoundError" /\ h' = h)
       /\ (slot >= 0 /\ slot < h.slotCount /\ slot \notin EmptySlots(h))
            => ret'.err = "nil"
       /\ (/\ ret.op = "heapPage.deleteTuple" /\ ret.err = "nil"
           /\ ret'.tuple = ret.tuple)
            => (ret'.err = "TupleNotFoundError" /\ h' = h)]_vars

\* C25 witness: deleteTuple of slot 1 has succeeded and the next call, with
\* the same rid, has failed on the page with slots 0 and 2 still occupied.
C25_Witness ==
  /\ ret.op = "heapPage.deleteTuple"
  /\ ret.err = "TupleNotFoundError"
  /\ ret.tuple[1].Rid = getRecordID(0, 1)
  /\ h.tuples[1] # Nil
  /\ h.tuples[2] = Nil
  /\ h.tuples[3] # Nil
  /\ h.slotUsed = 2

\* The hinted pages that have a free slot, as the loop of HeapFile.insertTuple
\* would observe them: the resident object, else the page read from the file.
HintedFree ==
  {p \in idlePage :
     LET pg == IF p \in DOMAIN Pages THEN <<Pages[p]>> ELSE readPage(file, p).page
     IN pg # Nil /\ pg[1].slotUsed < pg[1].slotCount}

\* C26: a successful HeapFile.insertTuple takes the new-page path only when
\* no hinted page has a free slot, and then every hinted page has been pruned,
\* the new page's number is pageCount before the call, pageCount grows by
\* exactly 1 and the new page is in the hint set; on the hint path pageCount
\* is unchanged and only full pages have been pruned.  Always, the pages of
\* the file and of the pool are numbered 0..pageCount-1 without gaps and
\* every hint-set entry is below pageCount.
C26_NewPageOnlyWhenHintsFull ==
  /\ [](/\ Len(file) = pageCount
        /\ idlePage \subseteq 0..(pageCount - 1)
        /\ \A p \in DOMAIN Pages : p \in 0..(pageCount - 1) /\ Pages[p].pageNo = p)
  /\ [][(ret'.op = "insertTuple" /\ ret'.err = "nil") =>
          /\ ret'.path \in {"new", "hint"}
          /\ ret'.path = "new" =>
               /\ HintedFree = {}
               /\ ret'.pageNo = pageCount
               /\ pageCount' = pageCount + 1
               /\ idlePage' = {pageCount}
               /\ Len(file') = Len(file) + 1
          /\ ret'.path = "hint" =>
               /\ ret'.pageNo \in HintedFree
               /\ pageCount' = pageCount
               /\ file' = file
               /\ idlePage' \subseteq idlePage
               /\ (idlePage \ idlePage') \cap HintedFree = {}]_vars

\* C26 witness: the new-page path has just allocated page 1 after pruning a
\* hint set that held the full page 0.
C26_Witness ==
  /\ ret.op = "insertTuple" /\ ret.err = "nil" /\ ret.path = "new"
  /\ ret.pageNo = 1
  /\ pageCount = 2
  /\ idlePage = {1}

\* C27: when HeapFile.insertTuple takes the new-page path, the pool it leaves
\* holds at most PageNum pages, and the path itself evicts nothing: from the
\* pool the hint loop left (with validPage nil), the path adds the new page,
\* clean and already written to the file, when fewer than PageNum pages are
\* resident, and otherwise leaves the resident set as it is.
C27_NewPageRespectsCapacity ==
  [][(ret'.op = "insertTuple" /\ ret'.err = "nil" /\ ret'.path = "new") =>
       /\ Cardinality(DOMAIN Pages') <= PageNum
       /\ readPage(file', pageCount).err = "nil"
       /\ readPage(file', pageCount).page[1].tuples[1] =
            <<Tuple(FileDesc, ret'.tuple[1].Fields, getRecordID(pageCount, 0))>>
       /\ \E r \in idleLoop(FS, idlePage) :
            /\ r.err = "nil" /\ r.validPage = -1
            /\ evicted' = r.fs.ev
            /\ IF Cardinality(DOMAIN r.fs.Pages) < PageNum
               THEN /\ DOMAIN Pages' = DOMAIN r.fs.Pages \cup {pageCount}
                    /\ \A p \in DOMAIN r.fs.Pages : Pages'[p] = r.fs.Pages[p]
                    /\ ~Pages'[pageCount].dirty
                    /\ Pages'[pageCount] = readPage(file', pageCount).page[1]
               ELSE Pages' = r.fs.Pages]_vars

\* C27 witness: the new-page path has just allocated page 1 while the pool,
\* of capacity 1, held the full page 0, and page 1 is not resident.
C27_Witness ==
  /\ ret.op = "insertTuple" /\ ret.err = "nil" /\ ret.path = "new"
  /\ PageNum = 1
  /\ DOMAIN Pages = {0}
  /\ ret.pageNo = 1
  /\ Len(file) = 2

\* C28: for finite inputs and any maxBufferSize >= 0, under a caller that
\* keeps calling, every call of the join's iterator returns, and from some
\* call on every call returns end-of-stream.
C28_JoinTerminates ==
  (opState.kind = "Join") =>
     <>[](~opState.running /\ opState.replies = <<EndOfStream>>)

\* C29: the join's hash table never holds more than maxBufferSize left
\* tuples; what it holds is the block of left tuples read by the last refill
\* and nothing of an earlier block (the tuples read last from the left
\* iterator, up to an item the refill failed on); over a left input without
\* errors the blocks start at multiples of maxBufferSize; the left iterator
\* only moves forward, is never re-opened, and has been read to its end when
\* the join reports end-of-stream.
C29_BufferBounded ==
  /\ [](opState.kind = "Join" =>
          LET buf == opState.joinBufMap
              n == Len(buf)
          IN /\ n <= opState.maxBufferSize
             /\ opState.leftPos <= Len(opState.left)
             /\ \E e \in {opState.leftPos, opState.leftPos - 1} :
                  /\ e - n >= 0
                  /\ \A k \in 1..n : opState.left[e - n + k].tuple = <<buf[k]>>
                  /\ (e # opState.leftPos) =>
                       \/ opState.left[opState.leftPos].err # "nil"
                       \/ EvalExpr(1, opState.left[opState.leftPos].tuple[1]).err # "nil"
             /\ (Evaluable(opState.left) /\ opState.maxBufferSize > 0) =>
                  (opState.leftPos - n) % opState.maxBufferSize = 0
             /\ Ended(opState.replies) =>
                  (opState.leftScanEnd /\ opState.leftPos = Len(opState.left)))
  /\ [][opState.kind = "Join" =>
          /\ opState'.leftPos >= opState.leftPos
          /\ opState'.left = opState.left
          /\ opState.leftScanEnd => (opState'.leftPos = opState.leftPos
                                     /\ opState'.joinBufMap = opState.joinBufMap)]_vars

\* C29 witness: with a buffer of one tuple and two left tuples of different
\* keys, the second refill has replaced the first tuple by the second.
C29_Witness ==
  /\ opState.kind = "Join" /\ opState.maxBufferSize = 1
  /\ Evaluable(opState.left) /\ Len(opState.left) = 2
  /\ opState.left[1] # opState.left[2]
  /\ opState.leftPos = 2
  /\ opState.joinBufMap = <<opState.left[2].tuple[1]>>
  /\ Len(opState.replies) > 0

\* The left block a left position falls in: blocks of maxBufferSize tuples.
BlockOf(i, maxBufferSize) ==
  IF maxBufferSize = 0 THEN 0 ELSE (i - 1) \div maxBufferSize

\* The (left block, right tuple, left tuple) order on pairs of positions.
EmittedBefore(p, q, maxBufferSize) ==
  LET bp == BlockOf(p[1], maxBufferSize)
      bq == BlockOf(q[1], maxBufferSize)
  IN \/ bp < bq
     \/ bp = bq /\ p[2] < q[2]
     \/ bp = bq /\ p[2] = q[2] /\ p[1] < q[1]

\* The joined tuples of the matching pairs in that order.
JoinOrder(left, right, maxBufferSize) ==
  LET P == MatchingPairs(left, right)
      Rank(p) == Cardinality({q \in P : EmittedBefore(q, p, maxBufferSize)}) + 1
  IN [k \in 1..Cardinality(P) |->
        LET p == CHOOSE q \in P : Rank(q) = k
        IN joinTuples(left[p[1]].tuple[1], right[p[2]].tuple[1])]

\* C30: over inputs without errors, every call before end-of-stream returns
\* exactly one joined tuple, and the k-th tuple returned is the k-th joined
\* tuple in (left block, right tuple, left tuple within the block) order: the
\* matches of one right tuple come out over consecutive calls in the order
\* the left iterator produced them, and at end-of-stream none is missing.
C30_JoinEmissionOrder ==
  (opState.kind = "Join" /\ Evaluable(opState.left) /\ Evaluable(opState.right))
  => LET replies == opState.replies
         got == TuplesOf(replies)
         want == JoinOrder(opState.left, opState.right, opState.maxBufferSize)
     IN /\ Len(got) <= Len(want)
        /\ \A k \in DOMAIN got : got[k] = want[k]
        /\ \A i \in DOMAIN replies :
             IF i <= Len(got) THEN replies[i].tuple = <<want[i]>>
             ELSE replies[i] = EndOfStream /\ Len(got) = Len(want)

\* C30 witness: one right tuple matched two different left tuples of one
\* block; both joined tuples have been returned, by two calls, and then
\* end-of-stream.
C30_Witness ==
  /\ opState.kind = "Join" /\ opState.maxBufferSize >= 2
  /\ Len(opState.left) = 2 /\ Len(opState.right) = 1
  /\ Evaluable(opState.left) /\ Evaluable(opState.right)
  /\ opState.left[1] # opState.left[2]
  /\ Cardinality(MatchingPairs(opState.left, opState.right)) = 2
  /\ Len(opState.replies) = 3
  /\ opState.replies[1].tuple # Nil
  /\ opState.replies[2].tuple # Nil
  /\ opState.replies[1] # opState.replies[2]
  /\ opState.replies[3] = EndOfStream

\* The number of non-empty blocks a left input of n tuples is read in.
NonEmptyBlocks(n, maxBufferSize) ==
  IF maxBufferSize = 0 THEN 0 ELSE (n + maxBufferSize - 1) \div maxBufferSize

\* C31: over inputs without errors, when the join has reported
\* end-of-stream, it has constructed the right iterator once per non-empty
\* left block and not once more for the empty block that ends the left
\* input (an empty left input, or one whose length is a multiple of
\* maxBufferSize).
C31_RightOpenedPerNonEmptyBlock ==
  (/\ opState.kind = "Join"
   /\ Evaluable(opState.left) /\ Evaluable(opState.right)
   /\ Ended(opState.replies))
  => opState.rightOpens = NonEmptyBlocks(Len(opState.left), opState.maxBufferSize)

\* C32: an InsertOp whose child is a sequential scan of its own target file
\* terminates and returns a count: its scan reaches end-of-stream although
\* tuples are inserted into the file between the scan's calls, so the call
\* returns the count tuple and no error.
C32_SelfInsertReturnsCount ==
  ret.op = "InsertOpScan" =>
    /\ ret.err = "nil"
    /\ ret.tuple # Nil
    /\ ret.tuple[1].Desc = InsertOp_Descriptor

\* C33: once AddTuple has been called at least once, whatever the tuples
\* (tuples the expression fails on and non-integer values included), the
\* count of the Avg state is at least 1 and Finalize does not divide by
\* zero.
C33_AvgCountPositiveAfterAdd ==
  (ret.op = "AvgAggState.Finalize" /\ opState.adds >= 1)
    => (opState.count >= 1 /\ ret.err = "nil")

\* C34: a LimitOp with limit k never takes from its child a tuple it does
\* not emit: at every point of its iterator's life, calls after the limit
\* included, the child tuples consumed are the tuples emitted, and they are
\* at most k.
C34_LimitConsumesOnlyEmitted ==
  (opState.kind = "LimitOp" /\ opState.limit >= 0
   /\ \A i \in DOMAIN child : child[i].err = "nil")
    => /\ opState.pos = Len(TuplesOf(opState.replies))
       /\ opState.pos <= opState.limit

\* C35: a record id held while its page is flushed, dropped from the pool
\* and re-read never addresses another tuple: when the page had an empty
\* slot below the tuple t the client holds, a deleteTuple with t's rid that
\* succeeds removes one occurrence of t's value from the file and nothing
\* else.
C35_HeldRidStaysValid ==
  [][(/\ opState.kind = "RidHolder" /\ opState.phase = "held"
      /\ opState.holeBelow
      /\ opState'.phase = "deleted"
      /\ ret'.err = "nil")
     => (/\ BagIn(opState.held[1].Fields, BagOfSeq(FileFields))
         /\ BagOfSeq(FileFields)' =
              BagOfSeq(FileFields) (-) SetToBag({opState.held[1].Fields}))]_vars

====
